---- MODULE Spec2Model ----
(***************************************************************************)
(* A model of the crossword solver core of CSA2-Thesis/crossword-solver:   *)
(* the grid and slot model, the dictionary queries the solvers use, the    *)
(* place / remove primitives and the DFS, Hybrid and A* searches of        *)
(* flask-backend/solver/algorithms; of DictionaryHelper.load_dictionary;   *)
(* of the generator (generator/crossword_generator.py) with the            *)
(* /generate request of server.py; and of the greedy solver of             *)
(* flask-backend/solver/astar_solver.py.                                   *)
(*                                                                         *)
(* Text is modelled as sequences of one-character strings, so that case    *)
(* folding, tokenising and substring tests are computed, not assumed.      *)
(* A grid is a sequence of rows (grid[y+1][x+1] is the cell at column x,   *)
(* row y); a word is a sequence of letters.                                *)
(***************************************************************************)
EXTENDS Integers, Sequences, FiniteSets, TLC

VARIABLES
    prGrid,      \* place/remove machine: the solver's grid (self.solution)
    prStack,     \* place/remove machine: the open placements, last placed last
    prLast,      \* place/remove machine: what the last operation did (history)
    algo,        \* which solver runs: "dfs", "hybrid", "astar" or "greedy"
    puzzle,      \* the solving input: [grid, across, down]
    raw,         \* the dictionary files' entries, in file order
    pc,          \* position of the solve call
    solution,    \* self.solution
    slots,       \* self.slots
    slot_candidates,      \* self.slot_candidates (DFS, Hybrid)
    fallback_attempted,   \* HybridSolver.fallback_attempted
    allow_fallback,       \* Hybrid: the allow_fallback flag of the running search
    stack,       \* the calls under way: the recursion of the search, or solve
    open_set,    \* A*: the heap's entries
    closed_set,  \* A*: grid hashes already expanded
    grid_cache,  \* A*: grid hash -> grid
    best_state,  \* A*: best state popped so far
    best_filled, \* A*: its number of filled slots
    iteration,   \* A*: loop counter
    fallback_usage_count, \* BaseCrosswordSolver.fallback_usage_count
    result,      \* what solve returned (or the exception that escaped)
    hist,        \* history of the run, for stating the properties
    helper,      \* DictionaryHelper: dictionary, word_length_index, letter_index
    call,        \* a call of a function on its own: its name and arguments
    ret,         \* what the call returned
    gpc,         \* position of the /generate request
    size,        \* generate: the requested size (width and height)
    difficulty,  \* generate: the requested difficulty
    possible_words,     \* generate: the words an initial word is drawn from
    attempt,     \* generate: tries started
    gen_puzzle,  \* the puzzle the generator of the running try works on
    best_puzzle, \* generate: the densest puzzle of the tries so far
    best_density,       \* generate: its density
    generated_puzzle,   \* generate: the puzzle whose density is in the band
    used_fallback,      \* generate: no puzzle was in the band
    response,    \* generate: the response returned
    ghist,       \* history of the tries, for stating the properties
    xpc,         \* position of a call of CrosswordGenerator.generate
    gen_call,    \* generate: its arguments and locals
    fin_call,    \* _generate_and_finalize: its locals
    pass_call,   \* _generate: its locals
    gen_ret,     \* what generate returned (or the exception that escaped)
    xhist        \* history of the call, for stating the properties

prVars == <<prGrid, prStack, prLast>>
solverVars == <<algo, puzzle, raw, pc, solution, slots, slot_candidates,
                fallback_attempted, allow_fallback, stack, open_set, closed_set,
                grid_cache, best_state, best_filled, iteration,
                fallback_usage_count, result, hist>>
loadVars == <<helper>>
callVars == <<call, ret>>
genVars == <<gpc, size, difficulty, possible_words, attempt, gen_puzzle, best_puzzle,
             best_density, generated_puzzle, used_fallback, response, ghist>>
runVars == <<xpc, gen_call, fin_call, pass_call, gen_ret, xhist>>
vars == <<prVars, solverVars, loadVars, callVars, genVars, runVars>>
\* what a solve leaves alone
aside == <<prVars, loadVars, callVars, genVars, runVars>>

-----------------------------------------------------------------------------
(* Sequences                                                               *)

Range(s) == {s[i] : i \in DOMAIN s}

Min2(a, b) == IF a <= b THEN a ELSE b

Max2(a, b) == IF a >= b THEN a ELSE b

Take(s, n) == SubSeq(s, 1, Min2(Len(s), n))

RECURSIVE Concat(_)
Concat(ss) == IF ss = <<>> THEN <<>> ELSE Head(ss) \o Concat(Tail(ss))

RECURSIVE SelectSeqBy(_, _)
\* the subsequence of s at the indices in keep, in order
SelectSeqBy(s, keep) ==
    IF s = <<>> THEN <<>>
    ELSE LET n == Len(s)
             front == SelectSeqBy(SubSeq(s, 1, n - 1), keep)
         IN IF n \in keep THEN Append(front, s[n]) ELSE front

-----------------------------------------------------------------------------
(* The grid                                                                *)

EMPTY == "."

Height(grid) == Len(grid)

Width(grid) == IF Len(grid) > 0 THEN Len(grid[1]) ELSE 0

InBounds(grid, x, y) ==
    /\ 0 <= y /\ y < Height(grid)
    /\ 0 <= x /\ x < Width(grid)

Cell(grid, x, y) == grid[y + 1][x + 1]

SetCell(grid, x, y, c) == [grid EXCEPT ![y + 1][x + 1] = c]

\* x, y of the i-th cell (i from 0) of a slot
SlotX(slot, i) == IF slot.direction = "across" THEN slot.x + i ELSE slot.x

SlotY(slot, i) == IF slot.direction = "across" THEN slot.y ELSE slot.y + i

\* BaseCrosswordSolver.__init__: ' ' and '.' both become '.'
NormalizeCell(c) == IF c \in {" ", "."} THEN EMPTY ELSE c

NormalizeGrid(grid) ==
    [y \in DOMAIN grid |-> [x \in DOMAIN grid[y] |-> NormalizeCell(grid[y][x])]]

-----------------------------------------------------------------------------
(* Place and remove (DFSSolver, HybridSolver, DFSCrosswordSolver)          *)

RECURSIVE PlaceLoop(_, _, _, _, _)
\* the loop of _place_word from index i (from 0): writes word[i] into a cell
\* only when the cell is '.', and records the cell then
PlaceLoop(grid, slot, word, i, positions) ==
    IF i >= Len(word) THEN [grid |-> grid, positions |-> positions]
    ELSE LET x == SlotX(slot, i)
             y == SlotY(slot, i)
         IN IF Cell(grid, x, y) = EMPTY
            THEN PlaceLoop(SetCell(grid, x, y, word[i + 1]), slot, word, i + 1,
                           Append(positions, <<x, y>>))
            ELSE PlaceLoop(grid, slot, word, i + 1, positions)

RECURSIVE OverwriteLoop(_, _, _, _, _)
\* the loop of _apply_word_to_grid from index i: writes word[i] into every
\* cell of the slot; positions lists the cells written
OverwriteLoop(grid, slot, word, i, positions) ==
    IF i >= Len(word) THEN [grid |-> grid, positions |-> positions]
    ELSE LET x == SlotX(slot, i)
             y == SlotY(slot, i)
         IN OverwriteLoop(SetCell(grid, x, y, word[i + 1]), slot, word, i + 1,
                          Append(positions, <<x, y>>))

\* a _place_word that writes over letters
place_word_overwriting(grid, slot, word) == OverwriteLoop(grid, slot, word, 0, <<>>)

\* a _place_word that records every cell of the word, written or not
place_word_recording_all(grid, slot, word) ==
    [grid |-> PlaceLoop(grid, slot, word, 0, <<>>).grid,
     positions |-> [i \in 1..Len(word) |-> <<SlotX(slot, i - 1), SlotY(slot, i - 1)>>]]

\* _place_word: the grid after the call and the positions returned
place_word(grid, slot, word) == PlaceLoop(grid, slot, word, 0, <<>>)

\* a _remove_word that leaves the letters in place
leave_word(grid, positions) == grid

RECURSIVE remove_word(_, _)
\* _remove_word: every listed position becomes '.'
remove_word(grid, positions) ==
    IF positions = <<>> THEN grid
    ELSE remove_word(SetCell(grid, Head(positions)[1], Head(positions)[2], EMPTY),
                     Tail(positions))

\* _place_word indexes self.solution[y][x] unchecked: a cell outside the grid
\* raises IndexError before anything is returned
WordInBounds(grid, slot, word) ==
    \A i \in 0..(Len(word) - 1) : InBounds(grid, SlotX(slot, i), SlotY(slot, i))

-----------------------------------------------------------------------------
(* The place / remove machine: _place_word and _remove_word applied to any *)
(* grid, slot and word, the removals last-placed-first-removed as in the   *)
(* backtracking of _optimized_dfs, _heuristic_dfs and _dfs.                *)

MaxNest == 2

PRGrids ==
    { << <<".", ".", ".">>,
         <<".", ".", ".">> >>,
      << <<"C", ".", "T">>,
         <<".", "O", ".">> >>,
      << <<"C", "A", "T">>,
         <<"O", ".", ".">> >>,
      << <<".", "X", ".">>,
         <<"Y", ".", ".">> >> }

PRWords ==
    { <<"C", "A", "T">>, <<"C", "O", "T">>, <<"D", "O">>, <<"A">> }

PRSlots(grid) ==
    { [direction |-> d, x |-> x, y |-> y] :
        d \in {"across", "down"},
        x \in 0..(Width(grid) - 1),
        y \in 0..(Height(grid) - 1) }

NoOp == [op |-> "none"]

\* the solver variables but the dictionary while no solver runs
SearchIdle ==
    /\ algo = "none"
    /\ puzzle = <<>>
    /\ pc = "idle"
    /\ solution = <<>>
    /\ slots = <<>>
    /\ slot_candidates = <<>>
    /\ fallback_attempted = {}
    /\ allow_fallback = FALSE
    /\ stack = <<>>
    /\ open_set = <<>>
    /\ closed_set = {}
    /\ grid_cache = <<>>
    /\ best_state = <<>>
    /\ best_filled = 0
    /\ iteration = 0
    /\ fallback_usage_count = 0
    /\ result = <<>>
    /\ hist = <<>>

\* the solver variables while no solver runs and no dictionary is read
SolverIdle == raw = <<>> /\ SearchIdle

\* no DictionaryHelper is constructed
LoadIdle == helper = <<>>

CallIdle == call = <<>> /\ ret = <<>>

\* no call of generate runs
RunIdle ==
    /\ xpc = "idle"
    /\ gen_call = <<>>
    /\ fin_call = <<>>
    /\ pass_call = <<>>
    /\ gen_ret = <<>>
    /\ xhist = <<>>

\* None
None == <<>>

\* no /generate request runs
GenIdle ==
    /\ gpc = "idle"
    /\ size = 0
    /\ difficulty = "none"
    /\ possible_words = <<>>
    /\ attempt = 0
    /\ gen_puzzle = None
    /\ best_puzzle = None
    /\ best_density = 0
    /\ generated_puzzle = None
    /\ used_fallback = FALSE
    /\ response = <<>>
    /\ ghist = <<>>

PRInit ==
    /\ prGrid \in PRGrids
    /\ prStack = <<>>
    /\ prLast = NoOp
    /\ SolverIdle
    /\ LoadIdle
    /\ CallIdle
    /\ GenIdle
    /\ RunIdle

\* placed_positions = self._place_word(slot, word)
PRPlace(slot, word) ==
    /\ Len(prStack) < MaxNest
    /\ WordInBounds(prGrid, slot, word)
    /\ LET r == place_word(prGrid, slot, word)
       IN /\ prGrid' = r.grid
          /\ prStack' = Append(prStack, [before |-> prGrid, slot |-> slot, word |-> word,
                                          positions |-> r.positions])
          /\ prLast' = [op |-> "place", before |-> prGrid, slot |-> slot,
                        word |-> word, positions |-> r.positions]
    /\ UNCHANGED <<solverVars, loadVars, callVars, genVars, runVars>>

\* self._remove_word(placed_positions), for the placement made last
PRRemove ==
    /\ prStack # <<>>
    /\ LET top == prStack[Len(prStack)]
       IN /\ prGrid' = remove_word(prGrid, top.positions)
          /\ prLast' = [op |-> "remove", before |-> prGrid, placedOn |-> top.before,
                        slot |-> top.slot, word |-> top.word,
                        positions |-> top.positions]
    /\ prStack' = SubSeq(prStack, 1, Len(prStack) - 1)
    /\ UNCHANGED <<solverVars, loadVars, callVars, genVars, runVars>>

PRNext ==
    \/ \E slot \in PRSlots(prGrid), word \in PRWords : PRPlace(slot, word)
    \/ PRRemove

SpecPR == PRInit /\ [][PRNext]_vars

AllCells(grid) ==
    { <<x, y>> : x \in 0..(Width(grid) - 1), y \in 0..(Height(grid) - 1) }

\* C1: _place_word followed by _remove_word on the positions it returned
\* leaves the grid equal cell for cell to the grid before the place, also
\* under last-placed-first-removed nesting; no cell that held a letter before
\* the place is EMPTY after the remove.
C1_PlaceRemoveRestores ==
    prLast.op = "remove" =>
        /\ prGrid = prLast.placedOn
        /\ \A c \in AllCells(prGrid) :
              Cell(prLast.placedOn, c[1], c[2]) # EMPTY => Cell(prGrid, c[1], c[2]) # EMPTY

\* a remove nested inside another open placement, which had cells to undo,
\* of a word placed across a cell that already held a letter
C1_Witness ==
    /\ prLast.op = "remove"
    /\ Len(prStack) = 1
    /\ prLast.positions # <<>>
    /\ \E i \in 0..(Len(prLast.word) - 1) :
          Cell(prLast.placedOn, SlotX(prLast.slot, i), SlotY(prLast.slot, i)) # EMPTY

\* C2: _place_word changes only cells that were EMPTY before the call, and the
\* positions it returns are exactly the cells it changed.
C2_PlaceWritesOnlyEmpty ==
    prLast.op = "place" =>
        /\ \A c \in AllCells(prGrid) :
              Cell(prGrid, c[1], c[2]) # Cell(prLast.before, c[1], c[2])
                  => Cell(prLast.before, c[1], c[2]) = EMPTY
        /\ Range(prLast.positions) =
              { c \in AllCells(prGrid) :
                  Cell(prGrid, c[1], c[2]) # Cell(prLast.before, c[1], c[2]) }
        /\ Len(prLast.positions) = Cardinality(Range(prLast.positions))

\* a placement over a slot that held a different letter than the word's at
\* some index and was EMPTY at another
C2_Witness ==
    /\ prLast.op = "place"
    /\ prLast.positions # <<>>
    /\ \E i \in 0..(Len(prLast.word) - 1) :
          LET c == Cell(prLast.before, SlotX(prLast.slot, i), SlotY(prLast.slot, i))
          IN c # EMPTY /\ c # prLast.word[i + 1]

-----------------------------------------------------------------------------
(* Text: str.lower, str.upper, str.isalpha, re.sub, str.split, `in`        *)

LowerAlphabet ==
    << "a", "b", "c", "d", "e", "f", "g", "h", "i", "j", "k", "l", "m",
       "n", "o", "p", "q", "r", "s", "t", "u", "v", "w", "x", "y", "z" >>

UpperAlphabet ==
    << "A", "B", "C", "D", "E", "F", "G", "H", "I", "J", "K", "L", "M",
       "N", "O", "P", "Q", "R", "S", "T", "U", "V", "W", "X", "Y", "Z" >>

Digits == {"0", "1", "2", "3", "4", "5", "6", "7", "8", "9"}

IndexOf(s, c) == CHOOSE i \in DOMAIN s : s[i] = c

LowerChar(c) ==
    IF c \in Range(UpperAlphabet) THEN LowerAlphabet[IndexOf(UpperAlphabet, c)] ELSE c

UpperChar(c) ==
    IF c \in Range(LowerAlphabet) THEN UpperAlphabet[IndexOf(LowerAlphabet, c)] ELSE c

Lower(s) == [i \in DOMAIN s |-> LowerChar(s[i])]

Upper(s) == [i \in DOMAIN s |-> UpperChar(s[i])]

IsLetter(c) == c \in Range(LowerAlphabet) \cup Range(UpperAlphabet)

\* str.isalpha: non-empty and letters only
IsAlpha(s) == s # <<>> /\ \A i \in DOMAIN s : IsLetter(s[i])

IsSpace(c) == c = " "

\* the regular expression class \w
IsWordChar(c) == IsLetter(c) \/ c \in Digits \/ c = "_"

RECURSIVE StripPunctuation(_)
\* re.sub(r'[^\w\s]', '', s)
StripPunctuation(s) ==
    IF s = <<>> THEN <<>>
    ELSE IF IsWordChar(Head(s)) \/ IsSpace(Head(s))
         THEN <<Head(s)>> \o StripPunctuation(Tail(s))
         ELSE StripPunctuation(Tail(s))

RECURSIVE SplitLoop(_, _, _)
\* str.split(): the maximal runs of non-space characters
SplitLoop(s, cur, out) ==
    IF s = <<>> THEN (IF cur = <<>> THEN out ELSE Append(out, cur))
    ELSE IF IsSpace(Head(s))
         THEN SplitLoop(Tail(s), <<>>, IF cur = <<>> THEN out ELSE Append(out, cur))
         ELSE SplitLoop(Tail(s), Append(cur, Head(s)), out)

Split(s) == SplitLoop(s, <<>>, <<>>)

\* a in b, for strings
IsSubstring(a, b) ==
    \E i \in 1..(Len(b) - Len(a) + 1) : SubSeq(b, i, i + Len(a) - 1) = a

RECURSIVE InsertDesc(_, _)
\* the pair x = <<key, item>> put into s, sorted by key descending, after
\* the pairs of equal key
InsertDesc(s, x) ==
    IF s = <<>> THEN <<x>>
    ELSE IF Head(s)[1] >= x[1]
         THEN <<Head(s)>> \o InsertDesc(Tail(s), x)
         ELSE <<x>> \o s

RECURSIVE SortPairsLoop(_, _)
SortPairsLoop(s, out) ==
    IF s = <<>> THEN out
    ELSE SortPairsLoop(Tail(s), InsertDesc(out, Head(s)))

\* sorted(s, key=lambda x: -Key(x)): descending, stable
SortDesc(s, Key(_)) ==
    LET pairs == [i \in DOMAIN s |-> <<Key(s[i]), s[i]>>]
        sorted == SortPairsLoop(pairs, <<>>)
    IN [i \in DOMAIN sorted |-> sorted[i][2]]

\* sorted(s, key=Key): ascending, stable
SortAsc(s, Key(_)) ==
    LET pairs == [i \in DOMAIN s |-> <<0 - Key(s[i]), s[i]>>]
        sorted == SortPairsLoop(pairs, <<>>)
    IN [i \in DOMAIN sorted |-> sorted[i][2]]

RECURSIVE DedupLoop(_, _)
DedupLoop(s, out) ==
    IF s = <<>> THEN out
    ELSE DedupLoop(Tail(s), IF Head(s) \in Range(out) THEN out ELSE Append(out, Head(s)))

\* every occurrence of every element
WithRepeats(s) == s

\* the first occurrence of every element, in order
Dedup(s) == DedupLoop(s, <<>>)

-----------------------------------------------------------------------------
(* The dictionary (dictionary_helper.py)                                   *)

BLACKLIST_WORDS ==
    { <<"a">>, <<"i">>, <<"m", "e">>,
      <<"m", "y">>, <<"w", "e">>, <<"u", "s">>,
      <<"o", "u", "r">>, <<"y", "o", "u">>, <<"y", "o", "u", "r">>,
      <<"h", "e">>, <<"h", "i", "m">>, <<"h", "i", "s">>,
      <<"s", "h", "e">>, <<"h", "e", "r">>, <<"i", "t">>,
      <<"i", "t", "s">>, <<"t", "h", "e", "y">>, <<"t", "h", "e", "m">>,
      <<"t", "h", "e", "i", "r">>, <<"t", "h", "i", "s">>, <<"t", "h", "a", "t">>,
      <<"t", "h", "e", "s", "e">>, <<"t", "h", "o", "s", "e">>, <<"a", "m">>,
      <<"i", "s">>, <<"a", "r", "e">>, <<"w", "a", "s">>,
      <<"w", "e", "r", "e">>, <<"b", "e">>, <<"b", "e", "i", "n", "g">>,
      <<"b", "e", "e", "n">>, <<"h", "a", "v", "e">>, <<"h", "a", "s">>,
      <<"h", "a", "d">>, <<"d", "o">>, <<"d", "o", "e", "s">>,
      <<"d", "i", "d">>, <<"w", "i", "l", "l">>, <<"w", "o", "u", "l", "d">>,
      <<"s", "h", "a", "l", "l">>, <<"s", "h", "o", "u", "l", "d">>, <<"m", "a", "y">>,
      <<"m", "i", "g", "h", "t">>, <<"m", "u", "s", "t">>, <<"c", "a", "n">>,
      <<"c", "o", "u", "l", "d">>, <<"a", "n", "d">>, <<"b", "u", "t">>,
      <<"o", "r">>, <<"n", "o", "r">>, <<"f", "o", "r">>,
      <<"s", "o">>, <<"y", "e", "t">>, <<"a", "s">>,
      <<"a", "t">>, <<"b", "y">>, <<"i", "n">>,
      <<"o", "f">>, <<"o", "n">>, <<"t", "o">>,
      <<"w", "i", "t", "h">>, <<"f", "r", "o", "m">>, <<"i", "n", "t", "o">>,
      <<"a", "b", "o", "u", "t">>, <<"o", "v", "e", "r">>, <<"a", "n", "a", "l">> }

LetterScoreTable ==
    << <<"E", 13>>, <<"T", 12>>, <<"A", 11>>, <<"O", 10>>, <<"I", 9>>, <<"N", 8>>,
       <<"S", 7>>, <<"H", 6>>, <<"R", 5>>, <<"D", 4>>, <<"L", 3>>, <<"C", 2>>,
       <<"U", 1>>, <<"M", 1>>, <<"W", 1>>, <<"F", 1>>, <<"G", 1>>, <<"Y", 1>>,
       <<"P", 1>>, <<"B", 1>>, <<"V", 1>>, <<"K", 1>>, <<"J", 1>>, <<"X", 1>>,
       <<"Q", 1>>, <<"Z", 1>> >>

\* LETTER_SCORES.get(c, 0)
LETTER_SCORES(c) ==
    IF \E i \in DOMAIN LetterScoreTable : LetterScoreTable[i][1] = c
    THEN LetterScoreTable[CHOOSE i \in DOMAIN LetterScoreTable : LetterScoreTable[i][1] = c][2]
    ELSE 0

\* the hard-coded words of get_fallback_words
FallbackList ==
    << <<"A", "G", "I", "L", "E">>, <<"A", "P", "T">>,
       <<"I", "R", "A">>, <<"R", "E", "A", "L">>,
       <<"A", "C", "T", "I", "V", "E">>, <<"E", "A", "S", "Y">>,
       <<"W", "A", "N">>, <<"A", "B", "L", "E">>,
       <<"P", "Y", "T", "H", "O", "N">>, <<"J", "A", "V", "A">> >>
\* An entry of the files is [file, key, meanings]; a meaning is
\* [fields, def, speech_part, example], fields naming the keys it has.

\* load_dictionary: the filter on a file entry's headword
Loadable(e) ==
    /\ ~(Len(e.key) <= 2)
    /\ IsAlpha(e.key)
    /\ Lower(e.key) \notin BLACKLIST_WORDS

\* the entries load_dictionary stores, in load order
LoadedEntries(d) == SelectSeq(d, Loadable)

\* word.lower() of every entry
KeysOf(es) == [i \in DOMAIN es |-> Lower(es[i].key)]

\* self.word_length_index[n]
word_length_index(d, n) ==
    KeysOf(SelectSeq(LoadedEntries(d), LAMBDA e : Len(e.key) = n))

\* word in self.dictionary
InDictionary(d, w) == w \in Range(KeysOf(LoadedEntries(d)))

\* the entry stored last under the key w, keys being the entries' keys
LastOf(es, keys, w) ==
    es[CHOOSE i \in DOMAIN keys :
          keys[i] = w /\ \A j \in DOMAIN keys : keys[j] = w => j <= i]

\* self.dictionary[w]
dictionary(d, w) == LastOf(LoadedEntries(d), KeysOf(LoadedEntries(d)), w)

RECURSIVE SumScores(_)
SumScores(word) ==
    IF word = <<>> THEN 0 ELSE LETTER_SCORES(UpperChar(Head(word))) + SumScores(Tail(word))

ObscureLetters == {"q", "z", "x", "j", "k", "v"}

\* DictionaryHelper._word_score
word_score(word) ==
    Max2(1, SumScores(word) - Cardinality(Range(Lower(word)) \cap ObscureLetters))

Noun == <<"n", "o", "u", "n">>

RECURSIVE AnyNoun(_)
\* any(m['speech_part'] == 'noun' for m in meanings): "true", "false", or
\* "raise" when a meaning without speech_part is read first (KeyError)
AnyNoun(meanings) ==
    IF meanings = <<>> THEN "false"
    ELSE IF "speech_part" \notin Head(meanings).fields THEN "raise"
    ELSE IF Head(meanings).speech_part = Noun THEN "true"
    ELSE AnyNoun(Tail(meanings))

\* get_fallback_words
get_fallback_words(max_words, lo, hi) ==
    Take(SelectSeq([i \in DOMAIN FallbackList |->
                       [word |-> FallbackList[i], relevance_score |-> 10]],
                   LAMBDA r : lo <= Len(r.word) /\ Len(r.word) <= hi),
         max_words)

\* the headwords of the lengths lo..hi, in the order the loops visit them
WordsInRange(d, lo, hi) ==
    Concat([k \in 1..(hi - lo + 1) |-> word_length_index(d, lo + k - 1)])

RelevanceKey(r) == r.relevance_score

\* the outcome of the noun test for every headword
NounsOf(d, ws) == [i \in DOMAIN ws |-> AnyNoun(dictionary(d, ws[i]).meanings)]

\* the no-clue branch over the headwords ws: every word scored by _word_score
\* (+2 for a noun meaning), best first; the fallback words when a meaning
\* without speech_part raised
no_clue_result(ws, nouns, fallback_words, max_words) ==
    IF \E i \in DOMAIN nouns : nouns[i] = "raise" THEN fallback_words
    ELSE Take(SortDesc([i \in DOMAIN ws |->
                          [word |-> Upper(ws[i]),
                           relevance_score |->
                               word_score(ws[i]) + (IF nouns[i] = "true" THEN 2 ELSE 0)]],
                       RelevanceKey),
              max_words)

\* get_possible_words with clue == ""
possible_words_no_clue(d, max_words, lo, hi) ==
    no_clue_result(WordsInRange(d, lo, hi), NounsOf(d, WordsInRange(d, lo, hi)),
                   get_fallback_words(max_words, lo, hi), max_words)

\* the clue's words: lower-cased, punctuation dropped, split on blanks,
\* without blacklisted and one-letter words
ClueWords(clue) ==
    { w \in Range(Split(StripPunctuation(Lower(clue)))) :
        w \notin BLACKLIST_WORDS /\ Len(w) > 1 }

\* the clue words found in the text
WordsFound(clue_words, text) == Cardinality({ cw \in clue_words : IsSubstring(cw, text) })

\* score_word_definition
score_word_definition(meaning, clue_words) ==
    10 * WordsFound(clue_words, Lower(meaning.def))
    + (IF "example" \in meaning.fields /\ meaning.example # <<>>
       THEN 5 * WordsFound(clue_words, Lower(meaning.example))
       ELSE 0)
    + (IF "speech_part" \in meaning.fields /\ meaning.speech_part = Noun THEN 2 ELSE 0)

\* the records matches.append builds for the meanings hs of headword w
AsMatches(w, hs, clue_words) ==
    [i \in DOMAIN hs |->
        [word |-> Upper(w),
         relevance_score |-> score_word_definition(hs[i], clue_words),
         has_speech_part |-> "speech_part" \in hs[i].fields]]

\* the matches list: one record per (word, meaning) of positive score
Matches(d, ws, clue_words) ==
    Concat([i \in DOMAIN ws |->
              AsMatches(ws[i],
                        SelectSeq(dictionary(d, ws[i]).meanings,
                                  LAMBDA m : score_word_definition(m, clue_words) > 0),
                        clue_words)])

\* the first match of the highest score among those of headword w
BestOf(matches, w) ==
    matches[CHOOSE i \in DOMAIN matches :
               /\ matches[i].word = w
               /\ \A j \in DOMAIN matches : matches[j].word = w =>
                     \/ matches[j].relevance_score < matches[i].relevance_score
                     \/ (matches[j].relevance_score = matches[i].relevance_score /\ i <= j)]

\* best_matches.values(): per headword, in order of first appearance, its
\* best match
BestPerWord(matches, firsts) ==
    [k \in DOMAIN firsts |->
        [word |-> firsts[k], relevance_score |-> BestOf(matches, firsts[k]).relevance_score]]

BestMatches(matches) ==
    BestPerWord(matches, Dedup([i \in DOMAIN matches |-> matches[i].word]))

\* results, extended by the no-clue words when fewer than max(5, max_words // 2)
extend_results(results, fallback, max_words) ==
    IF Len(results) < Max2(5, max_words \div 2)
    THEN Take(SortDesc(results \o Take(fallback, max_words - Len(results)), RelevanceKey),
              max_words)
    ELSE results

\* the clue branch once the matches are listed; reading speech_part of a
\* match without one raises, and the fallback words are returned
clue_result(matches, no_clue, fallback_words, max_words) ==
    IF \E i \in DOMAIN matches : ~matches[i].has_speech_part THEN fallback_words
    ELSE extend_results(Take(SortDesc(BestMatches(matches), RelevanceKey), max_words),
                        no_clue, max_words)

\* DictionaryHelper.get_possible_words(clue, max_words, (lo, hi))
get_possible_words(d, clue, max_words, lo, hi) ==
    IF clue = <<>> THEN possible_words_no_clue(d, max_words, lo, hi)
    ELSE IF ClueWords(clue) = {} THEN get_fallback_words(max_words, lo, hi)
    ELSE clue_result(Matches(d, WordsInRange(d, lo, hi), ClueWords(clue)),
                     possible_words_no_clue(d, max_words, lo, hi),
                     get_fallback_words(max_words, lo, hi), max_words)

NoMatch == [found |-> FALSE]

FirstHit(hits) ==
    IF hits = <<>> THEN NoMatch ELSE [found |-> TRUE, word |-> Upper(hits[1].key)]

\* DictionaryHelper.find_word_by_exact_clue: reads the files again, entry by
\* entry in file order, and returns the first headword with a meaning whose
\* definition equals the clue, case ignored
find_word_by_exact_clue(d, clue) ==
    IF clue = <<>> THEN NoMatch
    ELSE FirstHit(SelectSeq(d, LAMBDA e : Lower(clue) \in Range(
                                    [i \in DOMAIN e.meanings |-> Lower(e.meanings[i].def)])))

DefinitionRelatedTo ==
    <<"D", "e", "f", "i", "n", "i", "t", "i", "o", "n", " ",
      "r", "e", "l", "a", "t", "e", "d", " ", "t", "o", " ">>

\* entry['meanings'][0]['def'][:200]; an empty meanings list raises IndexError
FirstDefinition(meanings) ==
    IF meanings = <<>> THEN [raised |-> TRUE, clue |-> <<>>]
    ELSE [raised |-> FALSE, clue |-> Take(meanings[1].def, 200)]

\* the lookup in the file of the word's first letter, then the placeholder
FiledClue(filed, word_lower) ==
    IF filed # <<>> THEN FirstDefinition(filed[Len(filed)].meanings)
    ELSE [raised |-> FALSE, clue |-> DefinitionRelatedTo \o word_lower]

ClueForLower(d, word_lower) ==
    IF InDictionary(d, word_lower) THEN FirstDefinition(dictionary(d, word_lower).meanings)
    ELSE FiledClue(SelectSeq(d, LAMBDA e : e.file = word_lower[1] /\ e.key = word_lower),
                   word_lower)

\* DictionaryHelper.get_clue_for_word: [raised, clue]
get_clue_for_word(d, word) ==
    IF word = <<>> THEN [raised |-> FALSE, clue |-> <<>>]
    ELSE ClueForLower(d, Lower(word))

\* pattern matches the headword cell by cell, '.' matching any letter
MatchesPattern(pattern, w) ==
    /\ Len(w) = Len(pattern)
    /\ \A i \in DOMAIN pattern : pattern[i] \in {".", UpperChar(w[i])}

\* a definition of the entry contains one of the clue's words
DefinitionHasClueWord(entry, clue_words) ==
    \E i \in DOMAIN entry.meanings :
        WordsFound(clue_words, Lower(entry.meanings[i].def)) > 0

\* get_words_by_pattern(pattern, clue, max_words) of the dictionary helper the
\* refactored solvers are written against: up to max_words headwords of the
\* pattern's length that match it cell by cell ('.' matches any letter) and,
\* when a clue is given, have a definition containing one of the clue's words
get_words_by_pattern(d, pattern, clue, max_words) ==
    Take(SelectSeq([i \in DOMAIN word_length_index(d, Len(pattern)) |->
                       [word |-> Upper(word_length_index(d, Len(pattern))[i])]],
                   LAMBDA r :
                       /\ MatchesPattern(pattern, r.word)
                       /\ \/ clue = <<>>
                          \/ DefinitionHasClueWord(dictionary(d, Lower(r.word)),
                                                   ClueWords(clue))),
         max_words)

\* get_word_count_by_length(length) of the same helper
get_word_count_by_length(d, n) == Len(word_length_index(d, n))

\* a Python list index: negative indices count from the end
PyIndexOk(n, i) == -n <= i /\ i < n

PyIndex(n, i) == IF i < 0 THEN i + n ELSE i

\* grid[y][x] as Python evaluates it
PyCell(grid, x, y) == grid[PyIndex(Height(grid), y) + 1][PyIndex(Width(grid), x) + 1]

\* the slot a clue entry describes
ClueSlot(c, dir) ==
    [number |-> c.number, direction |-> dir, x |-> c.x, y |-> c.y,
     length |-> c.length, clue |-> c.clue, answer |-> c.answer]

\* ''.join(self.solution[y][x + i] for i in range(length)) raises IndexError
ReadRaises(grid, s) ==
    \E i \in 0..(s.length - 1) :
        ~(PyIndexOk(Height(grid), SlotY(s, i)) /\ PyIndexOk(Width(grid), SlotX(s, i)))

\* '.' in current_word
HasEmpty(grid, s) ==
    \E i \in 0..(s.length - 1) : PyCell(grid, SlotX(s, i), SlotY(s, i)) = EMPTY

\* every clue entry as a slot, ACROSS first
AllClueSlots(clues) ==
    [i \in DOMAIN clues.across |-> ClueSlot(clues.across[i], "across")]
    \o [i \in DOMAIN clues.down |-> ClueSlot(clues.down[i], "down")]

\* _get_word_slots raises when a clue reaches outside the grid
get_word_slots_raises(grid, clues) ==
    \E i \in DOMAIN AllClueSlots(clues) : ReadRaises(grid, AllClueSlots(clues)[i])

\* a filter that keeps the clue entries without an EMPTY cell as well
keep_every_slot(grid, s) == TRUE

\* if '.' not in current_word: continue
keep_open_slot(grid, s) == HasEmpty(grid, s)

\* _get_word_slots: the clue entries that still have an EMPTY cell
get_word_slots(grid, clues) ==
    SelectSeq(AllClueSlots(clues), LAMBDA s : keep_open_slot(grid, s))

SlotKey(s) == <<s.number, s.direction>>

SlotCells(s) == { <<SlotX(s, i), SlotY(s, i)>> : i \in 0..(s.length - 1) }

SlotsOfKey(ss, key) == { i \in DOMAIN ss : SlotKey(ss[i]) = key }

\* _build_slot_graph: graph[key], the keys of the other slots that share a
\* cell with a slot of this key
build_slot_graph(ss, key) ==
    { SlotKey(ss[j]) : j \in { j \in DOMAIN ss :
        /\ SlotKey(ss[j]) # key
        /\ \E i \in SlotsOfKey(ss, key) : SlotCells(ss[i]) \cap SlotCells(ss[j]) # {} } }

\* _get_slot_constraint_level
get_slot_constraint_level(ss, s) == Cardinality(build_slot_graph(ss, SlotKey(s)))

\* _get_slot_pattern
get_slot_pattern(grid, s) ==
    [k \in 1..s.length |->
        IF InBounds(grid, SlotX(s, k - 1), SlotY(s, k - 1))
        THEN Cell(grid, SlotX(s, k - 1), SlotY(s, k - 1))
        ELSE "#"]

\* the first slot of the key, as next(...) of the slots finds it
FirstOfKey(ss, key) ==
    ss[CHOOSE j \in SlotsOfKey(ss, key) : \A k \in SlotsOfKey(ss, key) : j <= k]

\* the letter at (x, y), if any, is the word's letter at word_pos
LetterAgrees(grid, x, y, word, word_pos) ==
    \/ ~InBounds(grid, x, y)
    \/ Cell(grid, x, y) = EMPTY
    \/ (word_pos + 1 \in DOMAIN word /\ word[word_pos + 1] = Cell(grid, x, y))

\* the test of _check_perpendicular_constraints for one crossing slot
CrossingAgrees(grid, s, word, other) ==
    \/ other.direction = s.direction
    \/ IF s.direction = "across"
       THEN LetterAgrees(grid, other.x, s.y, word, other.x - s.x)
       ELSE LetterAgrees(grid, s.x, other.y, word, other.y - s.y)

\* _check_perpendicular_constraints: at the crossing with every slot of the
\* other direction the grid's letter, if any, is the word's
check_perpendicular_constraints(grid, s, word, ss) ==
    \A key \in build_slot_graph(ss, SlotKey(s)) :
        CrossingAgrees(grid, s, word, FirstOfKey(ss, key))

\* the loop of _word_fits: every cell of the word is in the grid and is
\* EMPTY or holds the word's letter
CellsAgree(grid, s, word) ==
    \A i \in 0..(Len(word) - 1) :
        /\ InBounds(grid, SlotX(s, i), SlotY(s, i))
        /\ Cell(grid, SlotX(s, i), SlotY(s, i)) \in {EMPTY, word[i + 1]}

\* ConstraintChecker.check_word_fits: the word has the slot's length and
\* every cell of the slot is EMPTY or holds the word's letter
check_word_fits(grid, s, word) == Len(word) = s.length /\ CellsAgree(grid, s, word)

\* a fit test of the length alone
word_of_length(grid, s, word, ss) == Len(word) = s.length

\* DFSSolver._word_fits
word_fits(grid, s, word, ss) ==
    /\ CellsAgree(grid, s, word)
    /\ check_word_fits(grid, s, word)
    /\ check_perpendicular_constraints(grid, s, word, ss)

\* HybridSolver._word_fits
hybrid_word_fits(grid, s, word, ss) ==
    /\ check_word_fits(grid, s, word)
    /\ check_perpendicular_constraints(grid, s, word, ss)

\* AStarSolver._word_fits_in_slot
word_fits_in_slot(grid, s, word) == CellsAgree(grid, s, word)

\* is_filled of _count_filled_words
SlotFilled(grid, s) ==
    \A i \in 0..(s.length - 1) : PyCell(grid, SlotX(s, i), SlotY(s, i)) # EMPTY

\* _count_filled_words / count_filled_words
count_filled_words(grid, ss) == Cardinality({ i \in DOMAIN ss : SlotFilled(grid, ss[i]) })

\* candidate['word'].upper() of every record of a query's answer
WordsOf(records) == [i \in DOMAIN records |-> Upper(records[i].word)]

\* the words of the slot's length that _word_fits accepts, in order
Fitting(grid, s, ss, words) ==
    SelectSeq(words, LAMBDA w : Len(w) = s.length /\ word_fits(grid, s, w, ss))

\* the words that pass "if not word: continue"
NonEmptyWords(words) == SelectSeq(words, LAMBDA w : w # <<>>)

\* step 1 of _get_constrained_candidates: the exact-clue match
ExactCandidates(grid, s, ss, exact_match) ==
    IF exact_match.found /\ Len(exact_match.word) = s.length
    THEN Fitting(grid, s, ss, <<Upper(exact_match.word)>>)
    ELSE <<>>

\* step 2: the slot's answer, when its dictionary clue is the slot's clue
AnswerCandidates(grid, s, ss, answer_info) ==
    IF s.answer # <<>> /\ ~answer_info.raised /\ Lower(answer_info.clue) = Lower(s.clue)
    THEN Fitting(grid, s, ss, <<Upper(s.answer)>>)
    ELSE <<>>

\* the first list, or the second when the first is empty
OrElse(first, second) == IF first # <<>> THEN first ELSE second

\* DFSSolver._get_constrained_candidates
get_constrained_candidates(d, grid, s, ss) ==
    Dedup(OrElse(ExactCandidates(grid, s, ss, find_word_by_exact_clue(d, s.clue)),
                 AnswerCandidates(grid, s, ss, get_clue_for_word(d, s.answer)))
          \o Fitting(grid, s, ss,
                     NonEmptyWords(WordsOf(get_possible_words(d, s.clue, 1000,
                                                              s.length, s.length)))))

RECURSIVE WordRank(_)
\* the place of a word of upper-case letters in lexicographic order among the
\* words of its length
WordRank(w) ==
    IF w = <<>> THEN 0
    ELSE IndexOf(UpperAlphabet, w[Len(w)]) + 27 * WordRank(SubSeq(w, 1, Len(w) - 1))

\* the words push_word accepts, in order
Pushed(grid, s, ss, words) == Dedup(Fitting(grid, s, ss, NonEmptyWords(words)))

\* the number of fixed positions of the pattern that hold the word's letter
FixedMatches(pattern, w) ==
    Cardinality({ i \in DOMAIN pattern : pattern[i] # "." /\ pattern[i] = w[i] })

\* step 4 of the ladder: the words of the pool that agree with the pattern in
\* a fixed position, most agreements first, then alphabetically
HeuristicPool(pattern, pool) ==
    Take(SortDesc(SortAsc(SelectSeq(pool, LAMBDA w :
                              w # <<>> /\ Len(w) = Len(pattern) /\ FixedMatches(pattern, w) > 0),
                          WordRank),
                  LAMBDA w : FixedMatches(pattern, w)),
         200)

\* the first level of the ladder that produces a candidate
FirstLevel(large, byPattern, heuristic) ==
    IF large # <<>> THEN [level |-> 2, candidates |-> large]
    ELSE IF byPattern # <<>> THEN [level |-> 3, candidates |-> byPattern]
    ELSE [level |-> 4, candidates |-> heuristic]

\* DFSSolver._attempt_fallback_for_slot, for a dictionary helper without
\* get_spelling_variants: [level, candidates]
attempt_fallback_for_slot(d, grid, s, ss) ==
    FirstLevel(
        Pushed(grid, s, ss, WordsOf(get_possible_words(d, s.clue, 5000, s.length, s.length))),
        IF get_slot_pattern(grid, s) # <<>>
        THEN Pushed(grid, s, ss,
                    WordsOf(get_words_by_pattern(d, get_slot_pattern(grid, s), s.clue, 2000)))
        ELSE <<>>,
        Pushed(grid, s, ss,
               HeuristicPool(get_slot_pattern(grid, s),
                             WordsOf(possible_words_no_clue(d, 5000, s.length, s.length)))))

\* what _get_all_slot_candidates has for one slot: its candidates, and
\* whether the fallback ladder was entered for it
Collected(s, candidates, ladder) ==
    [slot |-> s, candidates |-> IF candidates # <<>> THEN candidates ELSE ladder.candidates,
     fallback |-> candidates = <<>>]

collect_slot(d, grid, s, ss) ==
    Collected(s, get_constrained_candidates(d, grid, s, ss),
              attempt_fallback_for_slot(d, grid, s, ss))

\* every slot with its candidates, had the loop of _get_all_slot_candidates
\* run to its end
collect_all(d, grid, ss) == [i \in DOMAIN ss |-> collect_slot(d, grid, ss[i], ss)]

\* the slots that have no candidate after the ladder
dead_slots(collected) == { i \in DOMAIN collected : collected[i].candidates = <<>> }

\* the ladder was entered for a slot: the collection reaches the first slot
\* without candidates, whatever the ladder then gives for it
enters_fallback(collected) == \E i \in DOMAIN collected : collected[i].fallback

SlotAndCandidates(e) == [slot |-> e.slot, candidates |-> e.candidates]

\* a collection that passes over a slot without candidates
get_all_slot_candidates_skipping(collected) ==
    SelectSeq([i \in DOMAIN collected |-> SlotAndCandidates(collected[i])],
              LAMBDA e : e.candidates # <<>>)

\* DFSSolver._get_all_slot_candidates: [] as soon as a slot has no candidate
\* after the ladder
get_all_slot_candidates(collected) ==
    IF dead_slots(collected) # {} THEN <<>>
    ELSE [i \in DOMAIN collected |-> SlotAndCandidates(collected[i])]

\* slot_candidates.sort(key=lambda x: (len(x[1]), -constraint_level(x[0])))
dfs_order(sc, ss) ==
    SortAsc(SortDesc(sc, LAMBDA e : get_slot_constraint_level(ss, e.slot)),
            LAMBDA e : Len(e.candidates))

\* the slot the loop over self.slot_candidates finds for a key
FirstCandidateOfKey(sc, key) ==
    sc[CHOOSE j \in DOMAIN sc :
          /\ SlotKey(sc[j].slot) = key
          /\ \A k \in DOMAIN sc : SlotKey(sc[k].slot) = key => j <= k].slot

\* the cell where a slot and a slot of the other direction cross, and the
\* place of that cell in the slot's word
IntersectX(s, o) == IF s.direction = "across" THEN o.x ELSE s.x
IntersectY(s, o) == IF s.direction = "across" THEN s.y ELSE o.y
WordPos(s, o) == IF s.direction = "across" THEN o.x - s.x ELSE o.y - s.y

\* other_char != '.' and other_char == word[word_pos]
OtherCharAgrees(grid, word, x, y, word_pos) ==
    /\ InBounds(grid, x, y)
    /\ Cell(grid, x, y) # EMPTY
    /\ word_pos + 1 \in DOMAIN word
    /\ Cell(grid, x, y) = word[word_pos + 1]

\* the crossing slot of slot_candidates scores for the word
CrossingScores(grid, s, word, o) ==
    /\ o.direction # s.direction
    /\ OtherCharAgrees(grid, word, IntersectX(s, o), IntersectY(s, o), WordPos(s, o))

\* +5 when the word is the exact-clue match
ExactBonus(exact_match, word) ==
    IF exact_match.found /\ Upper(exact_match.word) = word THEN 5 ELSE 0

\* HybridSolver._calculate_heuristic: +2 for every crossing slot of
\* slot_candidates whose cell at the crossing holds the word's letter, +5 when
\* the word is the exact-clue match
hybrid_calculate_heuristic(d, grid, s, word, sc, ss) ==
    2 * Cardinality({ key \in build_slot_graph(ss, SlotKey(s)) :
                        /\ \E j \in DOMAIN sc : SlotKey(sc[j].slot) = key
                        /\ CrossingScores(grid, s, word, FirstCandidateOfKey(sc, key)) })
    + ExactBonus(find_word_by_exact_clue(d, s.clue), word)

\* the words of a query's answer that _get_scored_candidates keeps
HybridFitting(grid, s, ss, words) ==
    SelectSeq(words, LAMBDA w : w # <<>> /\ Len(w) = s.length /\ hybrid_word_fits(grid, s, w, ss))

\* every kept word with its score
Scored(d, grid, s, sc, ss, ws) ==
    [i \in DOMAIN ws |->
        [word |-> ws[i], score |-> hybrid_calculate_heuristic(d, grid, s, ws[i], sc, ss)]]

\* HybridSolver._get_scored_candidates, for a dictionary helper without
\* get_alternative_spellings
get_scored_candidates(d, grid, s, sc, ss) ==
    Scored(d, grid, s, sc, ss,
           HybridFitting(grid, s, ss,
                         WordsOf(get_possible_words(d, s.clue, 1000, s.length, s.length))))

\* every slot with what _get_scored_candidates gives for it while
\* self.slot_candidates is still empty
score_all(d, grid, ss) ==
    [i \in DOMAIN ss |->
        [slot |-> ss[i], candidates |-> get_scored_candidates(d, grid, ss[i], <<>>, ss)]]

\* the slots _get_all_scored_candidates marks in fallback_attempted
unscored_slots(scored) == { i \in DOMAIN scored : scored[i].candidates = <<>> }

\* HybridSolver._get_all_scored_candidates: a slot without candidates is
\* passed over
get_all_scored_candidates(scored) == SelectSeq(scored, LAMBDA e : e.candidates # <<>>)

\* slot_candidates.sort(key=lambda x: len(x[1]))
hybrid_order(sc) == SortAsc(sc, LAMBDA e : Len(e.candidates))

ScoreKey(c) == c.score

\* _precompute_slot_constraints: the number of slots of the other direction
\* that cross the slot
slot_degree(ss, s) ==
    Cardinality({ j \in DOMAIN ss :
        /\ ~(ss[j].number = s.number /\ ss[j].direction = s.direction)
        /\ ss[j].direction # s.direction
        /\ IF s.direction = "across"
           THEN /\ ss[j].y <= s.y /\ s.y < ss[j].y + ss[j].length
                /\ s.x <= ss[j].x /\ ss[j].x < s.x + s.length
           ELSE /\ s.y <= ss[j].y /\ ss[j].y < s.y + s.length
                /\ ss[j].x <= s.x /\ s.x < ss[j].x + ss[j].length })

\* self.slot_constraints.get(key, 0): the entry the last slot of the key wrote
slot_constraints(ss, key) ==
    IF SlotsOfKey(ss, key) = {} THEN 0
    ELSE slot_degree(ss, ss[CHOOSE j \in SlotsOfKey(ss, key) :
                               \A k \in SlotsOfKey(ss, key) : k <= j])

RECURSIVE SumSeq(_)
SumSeq(s) == IF s = <<>> THEN 0 ELSE Head(s) + SumSeq(Tail(s))

\* AStarSolver._calculate_heuristic
calculate_heuristic(grid, filled_slots, ss) ==
    LET unfilled_cells == Cardinality({ c \in AllCells(grid) : Cell(grid, c[1], c[2]) = EMPTY })
        constraint_penalty ==
            SumSeq([i \in DOMAIN ss |->
                      IF SlotKey(ss[i]) \notin filled_slots
                      THEN slot_constraints(ss, SlotKey(ss[i])) ELSE 0])
    IN unfilled_cells + constraint_penalty \div 2

\* AStarSolver._get_slot_pattern
astar_slot_pattern(grid, s) ==
    [k \in 1..s.length |->
        IF InBounds(grid, SlotX(s, k - 1), SlotY(s, k - 1))
        THEN Cell(grid, SlotX(s, k - 1), SlotY(s, k - 1))
        ELSE "#"]

\* AStarSolver._estimate_candidates
estimate_candidates(d, s, pattern) ==
    LET fixed_chars == Cardinality({ i \in DOMAIN pattern : pattern[i] # "." })
    IN IF fixed_chars = 0 THEN get_word_count_by_length(d, s.length)
       ELSE Max2(1, get_word_count_by_length(d, s.length) \div (fixed_chars * 10))

RECURSIVE MostConstrainedLoop(_, _, _, _, _)
\* the loop of _get_most_constrained_slot over the available slots: the
\* fewest estimated candidates, then the higher degree, then the earlier slot
MostConstrainedLoop(d, grid, ss, available, best) ==
    IF available = <<>> THEN best
    ELSE LET s == Head(available)
             count(t) == estimate_candidates(d, t, astar_slot_pattern(grid, t))
             better ==
                \/ count(s) < count(best)
                \/ /\ count(s) = count(best)
                   /\ slot_constraints(ss, SlotKey(s)) > slot_constraints(ss, SlotKey(best))
         IN MostConstrainedLoop(d, grid, ss, Tail(available), IF better THEN s ELSE best)

\* the slots whose key is not in filled_slots
available_slots(ss, filled_slots) ==
    LET free(s) == SlotKey(s) \notin filled_slots
    IN SelectSeq(ss, free)

\* AStarSolver._get_most_constrained_slot, called with a slot available
get_most_constrained_slot(d, grid, filled_slots, ss) ==
    LET available == available_slots(ss, filled_slots)
    IN MostConstrainedLoop(d, grid, ss, Tail(available), Head(available))

\* AStarSolver._get_candidates_for_slot
get_candidates_for_slot(d, grid, s) ==
    LET exact_match == find_word_by_exact_clue(d, s.clue)
        fits(w) == Len(w) = s.length /\ word_fits_in_slot(grid, s, w)
    IN IF exact_match.found /\ Len(exact_match.word) = s.length
          /\ word_fits_in_slot(grid, s, Upper(exact_match.word))
       THEN <<Upper(exact_match.word)>>
       ELSE SelectSeq(WordsOf(get_words_by_pattern(d, astar_slot_pattern(grid, s), s.clue, 50)),
                      fits)

\* AStarSolver._apply_word_to_grid: a copy of the grid with every cell of the
\* slot overwritten
apply_word_to_grid(grid, s, word) == OverwriteLoop(grid, s, word, 0, <<>>).grid

\* AStarSolver._hash_grid
hash_grid(grid) == Concat(grid)

\* the search state with the cost of its parent
SuccessorAtParentCost(state, grid, s, word, ss) ==
    [grid_hash |-> hash_grid(apply_word_to_grid(grid, s, word)),
     grid |-> apply_word_to_grid(grid, s, word),
     filled_slots |-> state.filled_slots \cup {SlotKey(s)}, cost |-> state.cost,
     heuristic |-> calculate_heuristic(apply_word_to_grid(grid, s, word),
                                       state.filled_slots \cup {SlotKey(s)}, ss),
     priority |-> state.cost + calculate_heuristic(apply_word_to_grid(grid, s, word),
                                       state.filled_slots \cup {SlotKey(s)}, ss)]

\* the search state _generate_successors builds for one word
Successor(state, grid, s, word, ss) ==
    LET new_grid == apply_word_to_grid(grid, s, word)
        new_filled_slots == state.filled_slots \cup {SlotKey(s)}
        h == calculate_heuristic(new_grid, new_filled_slots, ss)
    IN [grid_hash |-> hash_grid(new_grid), grid |-> new_grid,
        filled_slots |-> new_filled_slots, cost |-> state.cost + 1,
        heuristic |-> h, priority |-> state.cost + 1 + h]

\* AStarSolver._generate_successors
generate_successors(d, state, grid, ss) ==
    IF available_slots(ss, state.filled_slots) = <<>> THEN <<>>
    ELSE LET s == get_most_constrained_slot(d, grid, state.filled_slots, ss)
             max_candidates == Min2(10 + slot_constraints(ss, SlotKey(s)) * 2, 50)
             candidates == Take(get_candidates_for_slot(d, grid, s), max_candidates)
         IN [i \in DOMAIN candidates |-> Successor(state, grid, s, candidates[i], ss)]

\* Dictionaries: the entries of the files a.json .. z.json, in file order
\* four three-letter headwords, every meaning complete
DictPets ==
    << [file |-> "c", key |-> <<"c", "a", "t">>,
       meanings |-> <<[fields |-> {"def", "speech_part"}, def |-> <<"w", "e", "e", " ", "p", "e", "t">>, speech_part |-> <<"n", "o", "u", "n">>, example |-> <<>>]>>],
       [file |-> "c", key |-> <<"c", "o", "t">>,
       meanings |-> <<[fields |-> {"def", "speech_part"}, def |-> <<"w", "e", "e", " ", "b", "e", "d">>, speech_part |-> <<"n", "o", "u", "n">>, example |-> <<>>]>>],
       [file |-> "d", key |-> <<"d", "i", "g">>,
       meanings |-> <<[fields |-> {"def", "speech_part"}, def |-> <<"t", "o", " ", "h", "o", "e">>, speech_part |-> <<"v", "e", "r", "b">>, example |-> <<>>]>>],
       [file |-> "d", key |-> <<"d", "o", "g">>,
       meanings |-> <<[fields |-> {"def", "speech_part"}, def |-> <<"c", "u", "r">>, speech_part |-> <<"n", "o", "u", "n">>, example |-> <<>>]>>] >>
\* the same headwords; the meaning of cat has no speech_part, and two
\* entries are filtered out at load (too short, not alphabetic)
DictBare ==
    << [file |-> "a", key |-> <<"a", "t">>,
       meanings |-> <<[fields |-> {"def", "speech_part"}, def |-> <<"n", "e", "a", "r">>, speech_part |-> <<"p", "r", "e", "p">>, example |-> <<>>]>>],
       [file |-> "c", key |-> <<"c", "a", "t">>,
       meanings |-> <<[fields |-> {"def"}, def |-> <<"w", "e", "e", " ", "p", "e", "t">>, speech_part |-> <<>>, example |-> <<>>]>>],
       [file |-> "c", key |-> <<"c", "o", "t">>,
       meanings |-> <<[fields |-> {"def", "speech_part"}, def |-> <<"w", "e", "e", " ", "b", "e", "d">>, speech_part |-> <<"n", "o", "u", "n">>, example |-> <<>>]>>],
       [file |-> "c", key |-> <<"c", "o", "-", "o", "p">>,
       meanings |-> <<[fields |-> {"def", "speech_part"}, def |-> <<"a", " ", "s", "h", "o", "p">>, speech_part |-> <<"n", "o", "u", "n">>, example |-> <<>>]>>],
       [file |-> "d", key |-> <<"d", "i", "g">>,
       meanings |-> <<[fields |-> {"def", "speech_part"}, def |-> <<"t", "o", " ", "h", "o", "e">>, speech_part |-> <<"v", "e", "r", "b">>, example |-> <<>>]>>],
       [file |-> "d", key |-> <<"d", "o", "g">>,
       meanings |-> <<[fields |-> {"def", "speech_part"}, def |-> <<"c", "u", "r">>, speech_part |-> <<"n", "o", "u", "n">>, example |-> <<>>]>>] >>
\* the four headwords; cot has a second meaning without speech_part, after
\* its noun meaning
DictAside ==
    << [file |-> "c", key |-> <<"c", "a", "t">>,
       meanings |-> <<[fields |-> {"def", "speech_part"}, def |-> <<"w", "e", "e", " ", "p", "e", "t">>, speech_part |-> <<"n", "o", "u", "n">>, example |-> <<>>]>>],
       [file |-> "c", key |-> <<"c", "o", "t">>,
       meanings |-> <<[fields |-> {"def", "speech_part"}, def |-> <<"w", "e", "e", " ", "b", "e", "d">>, speech_part |-> <<"n", "o", "u", "n">>, example |-> <<>>],
                      [fields |-> {"def"}, def |-> <<"w", "e", "e", " ", "h", "u", "t">>, speech_part |-> <<>>, example |-> <<>>]>>],
       [file |-> "d", key |-> <<"d", "i", "g">>,
       meanings |-> <<[fields |-> {"def", "speech_part"}, def |-> <<"t", "o", " ", "h", "o", "e">>, speech_part |-> <<"v", "e", "r", "b">>, example |-> <<>>]>>],
       [file |-> "d", key |-> <<"d", "o", "g">>,
       meanings |-> <<[fields |-> {"def", "speech_part"}, def |-> <<"c", "u", "r">>, speech_part |-> <<"n", "o", "u", "n">>, example |-> <<>>]>>] >>
Dictionaries == {DictPets, DictBare, DictAside}
\* headwords of three, four and six letters, each with its own definition
DictGlad ==
    << [file |-> "c", key |-> <<"c", "a", "t">>,
       meanings |-> <<[fields |-> {"def", "speech_part"}, def |-> <<"w", "e", "e", " ", "p", "e", "t">>, speech_part |-> <<"n", "o", "u", "n">>, example |-> <<>>]>>],
       [file |-> "c", key |-> <<"c", "a", "t", "s">>,
       meanings |-> <<[fields |-> {"def", "speech_part"}, def |-> <<"w", "e", "e", " ", "p", "e", "t", "s">>, speech_part |-> <<"n", "o", "u", "n">>, example |-> <<>>]>>],
       [file |-> "e", key |-> <<"e", "l", "a", "t", "e", "d">>,
       meanings |-> <<[fields |-> {"def", "speech_part"}, def |-> <<"g", "l", "a", "d">>, speech_part |-> <<"a", "d", "j">>, example |-> <<>>]>>],
       [file |-> "m", key |-> <<"m", "u", "s", "c", "l", "e">>,
       meanings |-> <<[fields |-> {"def", "speech_part"}, def |-> <<"a", " ", "s", "i", "n", "e", "w">>, speech_part |-> <<"n", "o", "u", "n">>, example |-> <<>>]>>] >>
\* cat and cot, two headwords of one length with one definition, and muscle
DictTwins ==
    << [file |-> "c", key |-> <<"c", "a", "t">>,
       meanings |-> <<[fields |-> {"def", "speech_part"}, def |-> <<"w", "e", "e", " ", "p", "e", "t">>, speech_part |-> <<"n", "o", "u", "n">>, example |-> <<>>]>>],
       [file |-> "c", key |-> <<"c", "o", "t">>,
       meanings |-> <<[fields |-> {"def", "speech_part"}, def |-> <<"w", "e", "e", " ", "p", "e", "t">>, speech_part |-> <<"n", "o", "u", "n">>, example |-> <<>>]>>],
       [file |-> "m", key |-> <<"m", "u", "s", "c", "l", "e">>,
       meanings |-> <<[fields |-> {"def", "speech_part"}, def |-> <<"a", " ", "s", "i", "n", "e", "w">>, speech_part |-> <<"n", "o", "u", "n">>, example |-> <<>>]>>] >>
GenDictionaries == {DictGlad}
\* no entry at all
DictNone == <<>>
\* six headwords defined with the word wee, cur with two meanings and cub with
\* an example, and one headword defined without it
DictWee ==
    << [file |-> "c", key |-> <<"c", "a", "t">>,
       meanings |-> <<[fields |-> {"def", "speech_part"}, def |-> <<"w", "e", "e", " ", "p", "e", "t">>, speech_part |-> <<"n", "o", "u", "n">>, example |-> <<>>]>>],
       [file |-> "c", key |-> <<"c", "o", "t">>,
       meanings |-> <<[fields |-> {"def", "speech_part"}, def |-> <<"w", "e", "e", " ", "b", "e", "d">>, speech_part |-> <<"n", "o", "u", "n">>, example |-> <<>>]>>],
       [file |-> "c", key |-> <<"c", "u", "b">>,
       meanings |-> <<[fields |-> {"def", "speech_part", "example"}, def |-> <<"w", "e", "e", " ", "b", "e", "a", "r">>, speech_part |-> <<"n", "o", "u", "n">>, example |-> <<"a", " ", "w", "e", "e", " ", "c", "u", "b">>]>>],
       [file |-> "c", key |-> <<"c", "u", "r">>,
       meanings |-> <<[fields |-> {"def", "speech_part"}, def |-> <<"a", " ", "c", "a", "d">>, speech_part |-> <<"n", "o", "u", "n">>, example |-> <<>>],
                      [fields |-> {"def", "speech_part"}, def |-> <<"w", "e", "e", " ", "d", "o", "g">>, speech_part |-> <<"n", "o", "u", "n">>, example |-> <<>>]>>],
       [file |-> "d", key |-> <<"d", "e", "n">>,
       meanings |-> <<[fields |-> {"def", "speech_part"}, def |-> <<"w", "e", "e", " ", "l", "a", "i", "r">>, speech_part |-> <<"n", "o", "u", "n">>, example |-> <<>>]>>],
       [file |-> "d", key |-> <<"d", "i", "g">>,
       meanings |-> <<[fields |-> {"def", "speech_part"}, def |-> <<"t", "o", " ", "h", "o", "e">>, speech_part |-> <<"v", "e", "r", "b">>, example |-> <<>>]>>],
       [file |-> "d", key |-> <<"d", "o", "t">>,
       meanings |-> <<[fields |-> {"def", "speech_part"}, def |-> <<"w", "e", "e", " ", "s", "p", "o", "t">>, speech_part |-> <<"n", "o", "u", "n">>, example |-> <<>>]>>] >>
QueryDictionaries == {DictNone, DictPets, DictBare, DictWee}
\* clues: none, stopwords only, one-letter tokens only, words of definitions
QueryClues ==
    { <<>>,
      <<"i", "t", " ", "i", "s">>,
      <<"x", " ", "y">>,
      <<"w", "e", "e">>,
      <<"w", "e", "e", " ", "p", "e", "t">>,
      <<"p", "e", "t", "!">>,
      <<"h", "o", "e">> }

\* Entries of dictionary files for load_dictionary: a plain headword, a
\* capitalised one, a short one, one with a hyphen, a blacklisted one, one of
\* sixteen letters and one without meanings
LoadPool ==
    { [file |-> "c", key |-> <<"c", "a", "t">>,
       meanings |-> <<[fields |-> {"def", "speech_part"}, def |-> <<"w", "e", "e", " ", "p", "e", "t">>, speech_part |-> <<"n", "o", "u", "n">>, example |-> <<>>]>>],
      [file |-> "c", key |-> <<"C", "o", "t">>,
       meanings |-> <<[fields |-> {"def", "speech_part"}, def |-> <<"w", "e", "e", " ", "b", "e", "d">>, speech_part |-> <<"n", "o", "u", "n">>, example |-> <<>>]>>],
      [file |-> "a", key |-> <<"a", "t">>,
       meanings |-> <<[fields |-> {"def", "speech_part"}, def |-> <<"n", "e", "a", "r">>, speech_part |-> <<"p", "r", "e", "p">>, example |-> <<>>]>>],
      [file |-> "c", key |-> <<"c", "o", "-", "o", "p">>,
       meanings |-> <<[fields |-> {"def", "speech_part"}, def |-> <<"a", " ", "s", "h", "o", "p">>, speech_part |-> <<"n", "o", "u", "n">>, example |-> <<>>]>>],
      [file |-> "h", key |-> <<"h", "e", "r">>,
       meanings |-> <<[fields |-> {"def", "speech_part"}, def |-> <<"o", "f", " ", "a", " ", "s", "h", "e">>, speech_part |-> <<"p", "r", "o", "n">>, example |-> <<>>]>>],
      [file |-> "i", key |-> <<"i", "n", "c", "o", "m", "p", "r", "e", "h", "e", "n", "s", "i", "b", "l", "e">>,
       meanings |-> <<[fields |-> {"def", "speech_part"}, def |-> <<"n", "o", "t", " ", "c", "l", "e", "a", "r">>, speech_part |-> <<"a", "d", "j">>, example |-> <<>>]>>],
      [file |-> "c", key |-> <<"c", "u", "b">>,
       meanings |-> <<>>] }

\* Puzzles: [grid, across, down] as the solvers' constructors take them
\* two crossing open slots; CAT across and COT down solve it
PuzzleCorner ==
    [grid |-> << <<".", ".", ".">>,
              <<".", "#", "#">>,
              <<".", "#", "#">> >>,
     across |-> <<[number |-> 1, x |-> 0, y |-> 0, length |-> 3,
          clue |-> <<"w", "e", "e", " ", "p", "e", "t">>, answer |-> <<"c", "a", "t">>]>>,
     down |-> <<[number |-> 1, x |-> 0, y |-> 0, length |-> 3,
          clue |-> <<"w", "e", "e", " ", "b", "e", "d">>, answer |-> <<"c", "o", "t">>]>>]
\* 2-across and 1-down share their middle cell; COT fits both
PuzzlePlus ==
    [grid |-> << <<"#", ".", "#">>,
              <<".", ".", ".">>,
              <<"#", ".", "#">> >>,
     across |-> <<[number |-> 2, x |-> 0, y |-> 1, length |-> 3,
          clue |-> <<"w", "e", "e", " ", "b", "e", "d">>, answer |-> <<"c", "o", "t">>]>>,
     down |-> <<[number |-> 1, x |-> 1, y |-> 0, length |-> 3,
          clue |-> <<"w", "e", "e", " ", "p", "e", "t">>, answer |-> <<"c", "a", "t">>]>>]
\* a four-cell slot no headword is long enough for, above an open three-cell slot
PuzzleLong ==
    [grid |-> << <<".", ".", ".", ".">>,
              <<".", ".", ".", "#">> >>,
     across |-> <<[number |-> 1, x |-> 0, y |-> 0, length |-> 4,
          clue |-> <<"w", "e", "e", " ", "b", "e", "d">>, answer |-> <<>>],
         [number |-> 2, x |-> 0, y |-> 1, length |-> 3,
          clue |-> <<"w", "e", "e", " ", "p", "e", "t">>, answer |-> <<>>]>>,
     down |-> <<>>]
\* 1-across ends in T and 1-down ends in G, so no pair of headwords
\* agrees on their shared first cell; 3-across CA. stands alone
PuzzleClash ==
    [grid |-> << <<".", ".", "T">>,
              <<".", "#", "#">>,
              <<"G", "#", "#">>,
              <<"C", "A", ".">> >>,
     across |-> <<[number |-> 1, x |-> 0, y |-> 0, length |-> 3,
          clue |-> <<"w", "e", "e", " ", "p", "e", "t">>, answer |-> <<>>],
         [number |-> 3, x |-> 0, y |-> 3, length |-> 3,
          clue |-> <<"p", "e", "t">>, answer |-> <<>>]>>,
     down |-> <<[number |-> 1, x |-> 0, y |-> 0, length |-> 3,
          clue |-> <<"t", "o", " ", "h", "o", "e">>, answer |-> <<>>]>>]
\* the clash of 1-across and 1-down beside a four-cell slot
PuzzleClashLong ==
    [grid |-> << <<".", ".", "T", "#">>,
              <<".", "#", "#", "#">>,
              <<"G", "#", "#", "#">>,
              <<".", ".", ".", ".">> >>,
     across |-> <<[number |-> 1, x |-> 0, y |-> 0, length |-> 3,
          clue |-> <<"w", "e", "e", " ", "p", "e", "t">>, answer |-> <<>>],
         [number |-> 4, x |-> 0, y |-> 3, length |-> 4,
          clue |-> <<"w", "e", "e", " ", "b", "e", "d">>, answer |-> <<>>]>>,
     down |-> <<[number |-> 1, x |-> 0, y |-> 0, length |-> 3,
          clue |-> <<"t", "o", " ", "h", "o", "e">>, answer |-> <<>>]>>]
\* 2-down needs only the cell it shares with 1-across
PuzzleCross ==
    [grid |-> << <<"C", ".", "T">>,
              <<"#", "O", "#">>,
              <<"#", "G", "#">> >>,
     across |-> <<[number |-> 1, x |-> 0, y |-> 0, length |-> 3,
          clue |-> <<"w", "e", "e", " ", "p", "e", "t">>, answer |-> <<>>]>>,
     down |-> <<[number |-> 2, x |-> 1, y |-> 0, length |-> 3,
          clue |-> <<"c", "u", "r">>, answer |-> <<>>]>>]
\* 1-across and 1-down lack only the first cell, which they share
PuzzleShared ==
    [grid |-> << <<".", "A", "T">>,
              <<"O", "#", "#">>,
              <<"T", "#", "#">> >>,
     across |-> <<[number |-> 1, x |-> 0, y |-> 0, length |-> 3,
          clue |-> <<"w", "e", "e", " ", "p", "e", "t">>, answer |-> <<"c", "a", "t">>]>>,
     down |-> <<[number |-> 1, x |-> 0, y |-> 0, length |-> 3,
          clue |-> <<"w", "e", "e", " ", "b", "e", "d">>, answer |-> <<"c", "o", "t">>]>>]
\* one slot whose clue is a word of two definitions: CAT and COT both fit
PuzzleWee ==
    [grid |-> << <<"C", ".", ".">> >>,
     across |-> <<[number |-> 1, x |-> 0, y |-> 0, length |-> 3,
          clue |-> <<"w", "e", "e">>, answer |-> <<>>]>>,
     down |-> <<>>]
\* a slot with fixed letters and a clue that is no definition
PuzzleFixed ==
    [grid |-> << <<"C", ".", "T">> >>,
     across |-> <<[number |-> 1, x |-> 0, y |-> 0, length |-> 3,
          clue |-> <<"p", "e", "t">>, answer |-> <<>>]>>,
     down |-> <<>>]
\* every clued cell is pre-filled; the other cells are blanks
PuzzleFilled ==
    [grid |-> << <<"C", "A", "T">>,
              <<"O", " ", " ">>,
              <<"T", ".", " ">> >>,
     across |-> <<[number |-> 1, x |-> 0, y |-> 0, length |-> 3,
          clue |-> <<"w", "e", "e", " ", "p", "e", "t">>, answer |-> <<"c", "a", "t">>]>>,
     down |-> <<[number |-> 1, x |-> 0, y |-> 0, length |-> 3,
          clue |-> <<"w", "e", "e", " ", "b", "e", "d">>, answer |-> <<"c", "o", "t">>]>>]
\* an open grid without clue entries
PuzzleNoClues ==
    [grid |-> << <<".", ".", ".">>,
              <<".", " ", ".">> >>,
     across |-> <<>>,
     down |-> <<>>]
\* 2-across starts in column 1 with length 3: its last cell is outside
PuzzleOutside ==
    [grid |-> << <<".", ".", ".">>,
              <<".", ".", ".">> >>,
     across |-> <<[number |-> 1, x |-> 0, y |-> 0, length |-> 3,
          clue |-> <<"w", "e", "e", " ", "p", "e", "t">>, answer |-> <<>>],
         [number |-> 2, x |-> 1, y |-> 1, length |-> 3,
          clue |-> <<"w", "e", "e", " ", "b", "e", "d">>, answer |-> <<>>]>>,
     down |-> <<>>]
\* 2-across .O. and 1-across ..G each cross 1-down at an end: COT across
\* leaves 1-down a word until 1-across is placed, DOG solves it
PuzzleStep ==
    [grid |-> << <<"#", "#", ".", ".", "G">>,
              <<"#", "#", ".", "#", "#">>,
              <<".", "O", ".", "#", "#">> >>,
     across |-> <<[number |-> 2, x |-> 0, y |-> 2, length |-> 3,
          clue |-> <<"w", "e", "e", " ", "b", "e", "d">>, answer |-> <<>>],
         [number |-> 1, x |-> 2, y |-> 0, length |-> 3,
          clue |-> <<"c", "u", "r">>, answer |-> <<>>]>>,
     down |-> <<[number |-> 1, x |-> 2, y |-> 0, length |-> 3,
          clue |-> <<"t", "o", " ", "h", "o", "e">>, answer |-> <<>>]>>]
\* 1-across and 1-down end in G and share their first cell; their clue has
\* a word of the definition of CAT and one of that of DIG
PuzzleEnds ==
    [grid |-> << <<".", ".", "G">>,
              <<".", "#", "#">>,
              <<"G", "#", "#">> >>,
     across |-> <<[number |-> 1, x |-> 0, y |-> 0, length |-> 3,
          clue |-> <<"w", "e", "e", " ", "h", "o", "e">>, answer |-> <<>>]>>,
     down |-> <<[number |-> 1, x |-> 0, y |-> 0, length |-> 3,
          clue |-> <<"w", "e", "e", " ", "h", "o", "e">>, answer |-> <<>>]>>]
Puzzles ==
    {PuzzleCorner,
     PuzzlePlus,
     PuzzleLong,
     PuzzleClash,
     PuzzleClashLong,
     PuzzleCross,
     PuzzleShared,
     PuzzleWee,
     PuzzleFixed,
     PuzzleFilled,
     PuzzleNoClues,
     PuzzleOutside,
     PuzzleStep,
     PuzzleEnds}
-----------------------------------------------------------------------------
(* The generator (generator/crossword_generator.py)                        *)

\* [['.' for _ in range(width)] for _ in range(height)]
BlankGrid(width, height) == [y \in 1..height |-> [x \in 1..width |-> EMPTY]]

\* CrosswordGenerator(width, height, grid, words): empty_grid is a copy of the
\* grid passed in.  placed lists the placements made, for stating the
\* properties: the generator keeps the words only
CrosswordGenerator(grid, words, placed) ==
    [grid |-> grid, empty_grid |-> grid, words |-> words, placed |-> placed]

\* x, y of the i-th cell (i from 0) of a word placed at x, y
LocX(x, vertical, i) == IF vertical THEN x ELSE x + i

LocY(y, vertical, i) == IF vertical THEN y + i ELSE y

\* the cell is in the grid and holds a letter
Occupied(grid, x, y) == InBounds(grid, x, y) /\ Cell(grid, x, y) # EMPTY

\* the word's letters written into the grid from x, y
WriteWord(grid, x, y, vertical, word) ==
    [r \in DOMAIN grid |-> [c \in DOMAIN grid[r] |->
        IF vertical /\ c - 1 = x /\ r - 1 - y \in 0..(Len(word) - 1) THEN word[r - y]
        ELSE IF ~vertical /\ r - 1 = y /\ c - 1 - x \in 0..(Len(word) - 1) THEN word[c - x]
        ELSE grid[r][c]]]

Placement(x, y, vertical, word) == [x |-> x, y |-> y, vertical |-> vertical, word |-> word]

\* _place_initial_word: the word centred in the blank grid of the generator,
\* or None when it is too long
place_initial_word(width, height, word, vertical) ==
    IF vertical
    THEN IF (height - Len(word)) \div 2 < 0 THEN None
         ELSE CrosswordGenerator(
                  WriteWord(BlankGrid(width, height), width \div 2,
                            (height - Len(word)) \div 2, TRUE, word),
                  {word},
                  {Placement(width \div 2, (height - Len(word)) \div 2, TRUE, word)})
    ELSE IF (width - Len(word)) \div 2 < 0 THEN None
         ELSE CrosswordGenerator(
                  WriteWord(BlankGrid(width, height), (width - Len(word)) \div 2,
                            height \div 2, FALSE, word),
                  {word},
                  {Placement((width - Len(word)) \div 2, height \div 2, FALSE, word)})

\* a test of a cell without a letter that accepts every cell
beside_unchecked(grid, vertical, loc_x, loc_y) == TRUE

\* _fits, the test of a cell without a letter: no letter beside it in the
\* perpendicular direction
beside_free(grid, vertical, loc_x, loc_y) ==
    IF vertical
    THEN ~(Occupied(grid, loc_x - 1, loc_y) \/ Occupied(grid, loc_x + 1, loc_y))
    ELSE ~(Occupied(grid, loc_x, loc_y - 1) \/ Occupied(grid, loc_x, loc_y + 1))

\* a test of a cell that accepts every cell, a letter in it or not
cell_unchecked(grid, vertical, loc_x, loc_y, char) == TRUE

\* _fits, the loop body for a cell inside the grid
cell_fits(grid, vertical, loc_x, loc_y, char) ==
    IF Cell(grid, loc_x, loc_y) # EMPTY THEN Cell(grid, loc_x, loc_y) = char
    ELSE beside_free(grid, vertical, loc_x, loc_y)

\* a word that may touch a letter at its ends
ends_unchecked(grid, vertical, x, y, length) == TRUE

\* _fits, the cells before and after the word
ends_free(grid, vertical, x, y, length) ==
    IF vertical
    THEN ~(Occupied(grid, x, y - 1) \/ Occupied(grid, x, y + length))
    ELSE ~(Occupied(grid, x - 1, y) \/ Occupied(grid, x + length, y))

\* CrosswordGenerator._fits
fits(grid, word, vertical, x, y) ==
    /\ " " \notin Range(word)
    /\ \A i \in 0..(Len(word) - 1) :
          /\ InBounds(grid, LocX(x, vertical, i), LocY(y, vertical, i))
          /\ cell_fits(grid, vertical, LocX(x, vertical, i), LocY(y, vertical, i),
                       word[i + 1])
    /\ \E i \in 0..(Len(word) - 1) :
          Cell(grid, LocX(x, vertical, i), LocY(y, vertical, i)) # EMPTY
    /\ ends_free(grid, vertical, x, y, Len(word))

\* _copy_with_word: the letters are written into the grid, empty_grid is
\* copied as it is
copy_with_word(cw, x, y, vertical, word) ==
    [grid |-> WriteWord(cw.grid, x, y, vertical, word),
     empty_grid |-> cw.empty_grid,
     words |-> cw.words \cup {word},
     placed |-> cw.placed \cup {Placement(x, y, vertical, word)}]

\* _calculate_placement_potential, the cells of the word with an open cell
\* beside them
open_beside(grid, vertical, loc_x, loc_y) ==
    IF vertical
    THEN \/ (InBounds(grid, loc_x - 1, loc_y) /\ Cell(grid, loc_x - 1, loc_y) = EMPTY)
         \/ (InBounds(grid, loc_x + 1, loc_y) /\ Cell(grid, loc_x + 1, loc_y) = EMPTY)
    ELSE \/ (InBounds(grid, loc_x, loc_y - 1) /\ Cell(grid, loc_x, loc_y - 1) = EMPTY)
         \/ (InBounds(grid, loc_x, loc_y + 1) /\ Cell(grid, loc_x, loc_y + 1) = EMPTY)

Abs(n) == IF n < 0 THEN 0 - n ELSE n

\* the letters of the grid
LettersOf(grid) == { grid[r][c] : r \in DOMAIN grid, c \in DOMAIN grid[1] } \ {EMPTY}

\* _calculate_placement_potential, on the grid with the word placed
calculate_placement_potential(grid, x, y, vertical, word) ==
    Cardinality({ i \in 0..(Len(word) - 1) :
                    open_beside(grid, vertical, LocX(x, vertical, i), LocY(y, vertical, i)) })
    + Max2(0, 10 - (Abs(x - Width(grid) \div 2) + Abs(y - Height(grid) \div 2))) \div 2
    + 2 * Cardinality({ i \in DOMAIN word : word[i] \in LettersOf(grid) })

\* _get_best_word_placements walks the letters of the word, the rows and the
\* columns, and tries across before down: the k-th of these trials
Trial(grid, k) ==
    [i |-> (k - 1) \div (2 * Width(grid) * Height(grid)),
     y |-> ((k - 1) \div (2 * Width(grid))) % Height(grid),
     x |-> ((k - 1) \div 2) % Width(grid),
     vertical |-> (k - 1) % 2 = 1]

\* the origin of the word when its letter i lies on the trial's cell
OriginX(t) == IF t.vertical THEN t.x ELSE t.x - t.i

OriginY(t) == IF t.vertical THEN t.y - t.i ELSE t.y

\* the trial's cell holds the letter and the word fits there
TrialFits(grid, word, t) ==
    /\ Cell(grid, t.x, t.y) = word[t.i + 1]
    /\ fits(grid, word, t.vertical, OriginX(t), OriginY(t))

\* the option of a trial that fits: the cw with the word and its potential
Option(cw, word, score, t) ==
    [puzzle |-> copy_with_word(cw, OriginX(t), OriginY(t), t.vertical, word),
     potential |-> score + calculate_placement_potential(
         WriteWord(cw.grid, OriginX(t), OriginY(t), t.vertical, word),
         OriginX(t), OriginY(t), t.vertical, word)]

\* the trials of the word that fit, in order
fitting_trials(grid, word) ==
    SelectSeq([k \in 1..(2 * Len(word) * Width(grid) * Height(grid)) |-> Trial(grid, k)],
              LAMBDA t : TrialFits(grid, word, t))

Options(cw, word, score, trials) ==
    [k \in DOMAIN trials |-> Option(cw, word, score, trials[k])]

\* _get_best_word_placements: the options in the order they are appended
get_best_word_placements(cw, word, score) ==
    Options(cw, word, score, fitting_trials(cw.grid, word))

\* max(options, key=lambda opt: opt['potential']): the first of the highest
best_option(options) ==
    options[CHOOSE k \in DOMAIN options :
                /\ \A j \in DOMAIN options : options[j].potential <= options[k].potential
                /\ \A j \in 1..(k - 1) : options[j].potential < options[k].potential]

\* the cells of the grid, row by row
CellsInOrder(grid) ==
    [k \in 1..(Width(grid) * Height(grid)) |->
        <<(k - 1) % Width(grid), (k - 1) \div Width(grid)>>]

\* analyze_grid, is_across and is_down: nothing before the cell, a letter after
is_across(grid, x, y) == ~Occupied(grid, x - 1, y) /\ Occupied(grid, x + 1, y)

is_down(grid, x, y) == ~Occupied(grid, x, y - 1) /\ Occupied(grid, x, y + 1)

\* analyze_grid, first pass: the numbered cells in order; the number of a
\* cell is its index
numbered_cells(grid_to_use) ==
    SelectSeq(CellsInOrder(grid_to_use),
              LAMBDA c : /\ Cell(grid_to_use, c[1], c[2]) # EMPTY
                         /\ (is_across(grid_to_use, c[1], c[2])
                             \/ is_down(grid_to_use, c[1], c[2])))

\* analyze_grid, second pass: the length of the run of letters from x, y
run_length(grid, x, y, vertical) ==
    CHOOSE n \in 0..(Width(grid) + Height(grid)) :
        /\ ~Occupied(grid, LocX(x, vertical, n), LocY(y, vertical, n))
        /\ \A i \in 0..(n - 1) : Occupied(grid, LocX(x, vertical, i), LocY(y, vertical, i))

\* ''.join of the run's cells
run_word(grid, x, y, vertical, length) ==
    [i \in 1..length |-> Cell(grid, LocX(x, vertical, i - 1), LocY(y, vertical, i - 1))]

\* WordSlot(x, y, length, direction, number, word, clue)
WordSlot(d, grid, x, y, vertical, number, length) ==
    [x |-> x, y |-> y, length |-> length,
     direction |-> IF vertical THEN "down" ELSE "across",
     number |-> number,
     word |-> run_word(grid, x, y, vertical, length),
     clue |-> get_clue_for_word(d, run_word(grid, x, y, vertical, length)).clue]

\* analyze_grid, second pass: the slots of one direction at the numbered cells
extract_words(d, grid, cells, vertical) ==
    LET starts == { k \in DOMAIN cells :
                      /\ ~Occupied(grid, LocX(cells[k][1], vertical, 0 - 1),
                                         LocY(cells[k][2], vertical, 0 - 1))
                      /\ run_length(grid, cells[k][1], cells[k][2], vertical) > 1 }
        kept == SelectSeqBy([k \in DOMAIN cells |-> k], starts)
    IN [j \in DOMAIN kept |->
           WordSlot(d, grid, cells[kept[j]][1], cells[kept[j]][2], vertical, kept[j],
                    run_length(grid, cells[kept[j]][1], cells[kept[j]][2], vertical))]

\* CrosswordGenerator.analyze_grid: the cells are numbered on grid_to_use, the
\* words are read from the grid
analyze_grid(d, cw, for_empty_grid) ==
    [across |-> extract_words(d, cw.grid,
                    numbered_cells(IF for_empty_grid THEN cw.empty_grid ELSE cw.grid), FALSE),
     down |-> extract_words(d, cw.grid,
                    numbered_cells(IF for_empty_grid THEN cw.empty_grid ELSE cw.grid), TRUE)]

\* get_clues, format_slot
format_slot(d, slot) ==
    [number |-> slot.number, clue |-> get_clue_for_word(d, slot.word).clue,
     answer |-> slot.word, x |-> slot.x, y |-> slot.y, length |-> Len(slot.word)]

format_slots(d, found) == [k \in DOMAIN found |-> format_slot(d, found[k])]

\* CrosswordGenerator.get_clues
get_clues(d, cw) ==
    [across |-> format_slots(d, analyze_grid(d, cw, FALSE).across),
     down |-> format_slots(d, analyze_grid(d, cw, FALSE).down)]

\* the number of cells with a letter
FilledCells(grid) ==
    Cardinality({ k \in DOMAIN CellsInOrder(grid) :
        Cell(grid, CellsInOrder(grid)[k][1], CellsInOrder(grid)[k][2]) # EMPTY })

\* CrosswordGenerator.calculate_density, as the fraction num / den
calculate_density(cw) ==
    [num |-> FilledCells(cw.grid), den |-> Width(cw.grid) * Height(cw.grid)]

-----------------------------------------------------------------------------
(* The /generate request (server.py)                                       *)

\* get_words_by_length: the headwords of the length in capitals, the first
\* max_words of the index sorted by score
get_words_by_length(d, length, max_words) ==
    SortDesc([k \in DOMAIN Take(word_length_index(d, length), max_words) |->
                 [word |-> Upper(word_length_index(d, length)[k]),
                  score |-> word_score(word_length_index(d, length)[k])]],
             LAMBDA w : w.score)

\* DENSITY_BOUNDS, in hundredths
DENSITY_BOUNDS(band) ==
    CASE band = "easy" -> [min |-> 35, max |-> 50]
      [] band = "medium" -> [min |-> 60, max |-> 69]
      [] band = "hard" -> [min |-> 80, max |-> 100]

\* min_density <= density <= max_density
in_band(density, band) ==
    /\ DENSITY_BOUNDS(band).min * density.den <= 100 * density.num
    /\ 100 * density.num <= DENSITY_BOUNDS(band).max * density.den

\* density < best_density
sparser(density, best) == density.num * best.den < best.num * density.den

\* density > best_density
denser(density, best) == density.num * best.den > best.num * density.den

\* min_word_length and max_word_length of the difficulty
min_word_length(band, n) ==
    CASE band = "easy" -> Max2(3, n \div 3)
      [] band = "hard" -> 3
      [] OTHER -> Max2(3, n \div 4)

max_word_length(band, n) ==
    CASE band = "easy" -> Min2(12, n)
      [] band = "hard" -> n
      [] OTHER -> Min2(10, n)

\* the lengths random.randint(min_word_length, min(max_word_length, size // 2))
\* can give; randint raises ValueError when there is none
initial_lengths(band, n) ==
    min_word_length(band, n)..Min2(max_word_length(band, n), n \div 2)

MAX_GENERATION_TRIES == 15

\* for attempt in range(max_attempts) of _generate
PassAttempts == 100

\* if iteration > 50 of _generate_and_finalize
SafetyLimit == 50

\* the words word_list can hold in the try: those of the lengths
\* min_word_length .. max_word_length + attempt % 2, shuffled
word_list_words(d, band, n, try) ==
    UNION { { Upper(w) : w \in Range(word_length_index(d, length)) } :
            length \in min_word_length(band, n)..(max_word_length(band, n) + (try % 2)) }

Numerals == <<"0", "1", "2", "3", "4", "5", "6", "7", "8", "9">>

RECURSIVE Str(_)
\* str(number)
Str(n) ==
    IF n < 10 THEN <<Numerals[n + 1]>>
    ELSE Append(Str(n \div 10), Numerals[(n % 10) + 1])

-----------------------------------------------------------------------------
(* From the generator to the solver                                        *)

RECURSIVE Grown(_, _, _)
\* _generate: the puzzles after up to passes words of the list were placed,
\* each at its best option
Grown(cws, words, passes) ==
    IF passes = 0 THEN cws
    ELSE Grown(cws \cup
               { best_option(get_best_word_placements(p[1], p[2], word_score(p[2]))).puzzle :
                 p \in { q \in cws \X words :
                           /\ q[2] \notin q[1].words
                           /\ get_best_word_placements(q[1], q[2], word_score(q[2])) # <<>> } },
               words, passes - 1)

\* no word of the list that is not in the puzzle can be placed
Saturated(cw, words) ==
    \A w \in words \ cw.words : get_best_word_placements(cw, w, word_score(w)) = <<>>

\* the puzzles generator.generate returns for a word list that it exhausts:
\* the initial word across, the words of the list placed until no other fits,
\* and more than one word in the puzzle
generate_returns(d, band, n) ==
    { cw \in Grown({ place_initial_word(n, n, seed.word, FALSE) :
                       seed \in UNION { Range(get_words_by_length(d, l, 100)) :
                                          l \in initial_lengths(band, n) } },
                   word_list_words(d, band, n, 0),
                   Cardinality(word_list_words(d, band, n, 0))) :
        /\ Cardinality(cw.words) > 1
        /\ Saturated(cw, word_list_words(d, band, n, 0)) }

\* the solver's input for a generated puzzle: the grid emptied and the clue
\* list of get_clues
Emptied(d, cw) ==
    [grid |-> BlankGrid(Width(cw.grid), Height(cw.grid)),
     across |-> get_clues(d, cw).across,
     down |-> get_clues(d, cw).down]

\* the grid sizes of the requests
Sizes == {4, 6}

RoundTripDictionaries == {DictGlad, DictTwins}

RoundTripPuzzles(d) ==
    { Emptied(d, cw) : cw \in UNION { generate_returns(d, "easy", n) : n \in Sizes } }

\* ---------------------------------------------------------------------
\* The solvers: one solve call of DFSSolver, HybridSolver or AStarSolver
\* ---------------------------------------------------------------------

max_iterations == 10000

Algorithms == {"dfs", "hybrid", "astar"}

PRIdle == prGrid = <<>> /\ prStack = <<>> /\ prLast = NoOp

NoHistory ==
    [queried |-> FALSE, fallback_entered |-> FALSE, dead |-> {}, max_filled |-> 0,
     start_priority |-> 0, max_generated |-> 0, expanded |-> <<>>,
     pushed_closed |-> {}, skipped |-> {}, backtracked |-> FALSE, entries |-> <<>>]

Init ==
    /\ PRIdle
    /\ LoadIdle
    /\ CallIdle
    /\ GenIdle
    /\ RunIdle
    /\ algo \in Algorithms
    /\ \/ puzzle \in Puzzles /\ raw \in Dictionaries
       \/ raw \in RoundTripDictionaries /\ puzzle \in RoundTripPuzzles(raw)
    /\ pc = "new"
    /\ solution = <<>>
    /\ slots = <<>>
    /\ slot_candidates = <<>>
    /\ fallback_attempted = {}
    /\ allow_fallback = FALSE
    /\ stack = <<>>
    /\ open_set = <<>>
    /\ closed_set = {}
    /\ grid_cache = <<>>
    /\ best_state = <<>>
    /\ best_filled = 0
    /\ iteration = 0
    /\ fallback_usage_count = 0
    /\ result = <<>>
    /\ hist = NoHistory

searchVars == <<slot_candidates, fallback_attempted, allow_fallback, stack>>
astarVars == <<open_set, closed_set, grid_cache, best_state, best_filled, iteration>>
inputVars == <<algo, puzzle, raw>>

\* _create_result
create_result(grid, success, words_placed, total_words) ==
    [status |-> IF success THEN "success" ELSE "partial",
     grid |-> NormalizeGrid(grid),
     words_placed |-> words_placed,
     total_words |-> total_words,
     fallback_usage_count |-> fallback_usage_count]

\* the keys of the dict _create_result returns; the model's result leaves out
\* the measurements of time and memory
ResultKeys ==
    {"status", "grid", "min_memory_kb", "memory_usage_kb", "peak_memory_kb",
     "execution_time", "time_complexity", "space_complexity", "words_placed",
     "total_words", "fallback_usage_count", "memory_profiling_enabled"}

\* the IndexError of _get_word_slots leaving the constructor
Raised == [status |-> "raised"]

\* __init__: the grid is copied with ' ' as '.', the slots are collected
Construct ==
    /\ pc = "new"
    /\ solution' = NormalizeGrid(puzzle.grid)
    /\ IF get_word_slots_raises(NormalizeGrid(puzzle.grid), puzzle)
       THEN pc' = "raised" /\ result' = Raised /\ slots' = slots
       ELSE /\ pc' = "constructed"
            /\ slots' = get_word_slots(NormalizeGrid(puzzle.grid), puzzle)
            /\ result' = result
    /\ UNCHANGED <<aside, inputVars, searchVars, astarVars, fallback_usage_count, hist>>

\* solve: if not self.slots: return self._create_result(True, 0, 0)
SolveNoSlots ==
    /\ pc = "constructed"
    /\ slots = <<>>
    /\ result' = create_result(solution, TRUE, 0, 0)
    /\ pc' = "done"
    /\ UNCHANGED <<aside, inputVars, solution, slots, searchVars, astarVars,
                   fallback_usage_count, hist>>

Frame(k) == [slot_index |-> k, i |-> 1, positions |-> <<>>]

\* _heuristic_dfs sorts the entered slot's candidates by descending score
SortedAt(sc, k) ==
    IF algo = "hybrid" /\ k + 1 \in DOMAIN sc
    THEN [sc EXCEPT ![k + 1].candidates = SortDesc(@, ScoreKey)]
    ELSE sc

\* the grids at the entry of the calls under way, the outermost first: the
\* search is entered when there are lists to search
Entered(lists) == IF lists = <<>> THEN <<>> ELSE <<solution>>

\* DFSSolver.solve up to the call of _optimized_dfs(0)
DfsCollect ==
    /\ pc = "constructed"
    /\ algo = "dfs"
    /\ slots # <<>>
    /\ \E collected \in {collect_all(raw, solution, slots)} :
          /\ hist' = [hist EXCEPT !.queried = TRUE,
                                  !.fallback_entered = enters_fallback(collected),
                                  !.dead = dead_slots(collected),
                                  !.entries = Entered(get_all_slot_candidates(collected))]
          /\ IF get_all_slot_candidates(collected) = <<>>
             THEN /\ result' = create_result(solution, FALSE, 0, Len(slots))
                  /\ pc' = "done"
                  /\ UNCHANGED <<slot_candidates, stack>>
             ELSE /\ slot_candidates' = dfs_order(get_all_slot_candidates(collected), slots)
                  /\ stack' = <<Frame(0)>>
                  /\ pc' = "search"
                  /\ result' = result
    /\ UNCHANGED <<aside, inputVars, solution, slots, fallback_attempted, allow_fallback,
                   astarVars, fallback_usage_count>>

\* HybridSolver.solve up to the call of _heuristic_dfs(0)
HybridCollect ==
    /\ pc = "constructed"
    /\ algo = "hybrid"
    /\ slots # <<>>
    /\ \E scored \in {score_all(raw, solution, slots)} :
          /\ hist' = [hist EXCEPT !.queried = TRUE,
                                  !.entries = Entered(get_all_scored_candidates(scored))]
          /\ fallback_attempted' = { SlotKey(slots[i]) : i \in unscored_slots(scored) }
          /\ IF get_all_scored_candidates(scored) = <<>>
             THEN /\ result' = create_result(solution, FALSE, 0, Len(slots))
                  /\ pc' = "done"
                  /\ UNCHANGED <<slot_candidates, stack>>
             ELSE /\ slot_candidates' =
                        SortedAt(hybrid_order(get_all_scored_candidates(scored)), 0)
                  /\ stack' = <<Frame(0)>>
                  /\ pc' = "search"
                  /\ result' = result
    /\ UNCHANGED <<aside, inputVars, solution, slots, allow_fallback,
                   astarVars, fallback_usage_count>>

Top == stack[Len(stack)]

TopEntry == slot_candidates[Top.slot_index + 1]

\* the word of the candidate the loop of the top call is at
TopWord ==
    IF algo = "hybrid" THEN TopEntry.candidates[Top.i].word ELSE TopEntry.candidates[Top.i]

\* the loop over the candidates of the top call. The slot keys of a puzzle are
\* unique, so no slot of slot_candidates is in fallback_attempted and
\* _heuristic_dfs never fetches its candidates again
InLoop ==
    /\ pc = "search"
    /\ stack # <<>>
    /\ Top.slot_index < Len(slot_candidates)
    /\ Top.i <= Len(TopEntry.candidates)

TopFits ==
    IF algo = "hybrid" THEN hybrid_word_fits(solution, TopEntry.slot, TopWord, slots)
    ELSE word_fits(solution, TopEntry.slot, TopWord, slots)

\* _get_affected_slots: for every key of the graph, the first index of
\* slot_candidates with that key
get_affected_slots(sc, ss, s) ==
    { idx \in DOMAIN sc :
        /\ SlotKey(sc[idx].slot) \in build_slot_graph(ss, SlotKey(s))
        /\ \A j \in DOMAIN sc : SlotKey(sc[j].slot) = SlotKey(sc[idx].slot) => idx <= j }

\* _check_forward_constraints over the affected slots after slot_index
check_forward_constraints(grid) ==
    \A idx \in get_affected_slots(slot_candidates, slots, TopEntry.slot) :
        idx - 1 > Top.slot_index =>
            IF algo = "hybrid"
            THEN get_scored_candidates(raw, grid, slot_candidates[idx].slot,
                                       slot_candidates, slots) # <<>>
            ELSE get_constrained_candidates(raw, grid, slot_candidates[idx].slot, slots) # <<>>

\* the history after the search goes on from the grid: the most filled slots
\* of any grid a placement was kept in
Seen(grid) ==
    [hist EXCEPT !.queried = TRUE,
                 !.max_filled = Max2(@, count_filled_words(grid, slots))]

\* a loop that stays at its candidate
SameCandidate == stack

\* for word in candidates: the loop of the top call goes on to its next word
NextCandidate == [stack EXCEPT ![Len(stack)].i = @ + 1]

\* the word no longer fits: continue
SearchSkip ==
    /\ InLoop
    /\ ~TopFits
    /\ stack' = NextCandidate
    /\ UNCHANGED <<aside, inputVars, pc, solution, slots, slot_candidates,
                   fallback_attempted, allow_fallback, astarVars,
                   fallback_usage_count, result, hist>>

\* the word is placed, the forward check fails, the word is removed
SearchForwardFail ==
    /\ InLoop
    /\ TopFits
    /\ \E placed \in {place_word(solution, TopEntry.slot, TopWord)} :
          /\ ~check_forward_constraints(placed.grid)
          /\ solution' = remove_word(placed.grid, placed.positions)
    /\ hist' = [hist EXCEPT !.queried = TRUE]
    /\ stack' = NextCandidate
    /\ UNCHANGED <<aside, inputVars, pc, slots, slot_candidates,
                   fallback_attempted, allow_fallback, astarVars,
                   fallback_usage_count, result>>

\* the word is placed, the forward check passes, the search calls itself
\* for the next slot
SearchDescend ==
    /\ InLoop
    /\ TopFits
    /\ \E placed \in {place_word(solution, TopEntry.slot, TopWord)} :
          /\ check_forward_constraints(placed.grid)
          /\ solution' = placed.grid
          /\ hist' = [Seen(placed.grid) EXCEPT !.entries = Append(@, placed.grid)]
          /\ stack' = Append([stack EXCEPT ![Len(stack)].positions = placed.positions],
                             Frame(Top.slot_index + 1))
    /\ slot_candidates' = SortedAt(slot_candidates, Top.slot_index + 1)
    /\ UNCHANGED <<aside, inputVars, pc, slots, fallback_attempted, allow_fallback,
                   astarVars, fallback_usage_count, result>>

\* slot_index >= len(self.slot_candidates): True, and every caller returns
\* True in turn
SearchSucceed ==
    /\ pc = "search"
    /\ stack # <<>>
    /\ Top.slot_index >= Len(slot_candidates)
    /\ stack' = <<>>
    /\ pc' = "found"
    /\ UNCHANGED <<aside, inputVars, solution, slots, slot_candidates,
                   fallback_attempted, allow_fallback, astarVars,
                   fallback_usage_count, result, hist>>

\* the candidates of the slot are exhausted: False; the caller removes its
\* word and goes on with its next candidate
SearchExhaust ==
    /\ pc = "search"
    /\ stack # <<>>
    /\ Top.slot_index < Len(slot_candidates)
    /\ Top.i > Len(TopEntry.candidates)
    /\ IF Len(stack) = 1
       THEN /\ stack' = <<>> /\ pc' = "failed" /\ solution' = solution
            /\ hist' = [hist EXCEPT !.entries = <<>>]
       ELSE /\ solution' = remove_word(solution, stack[Len(stack) - 1].positions)
            /\ stack' = Append(SubSeq(stack, 1, Len(stack) - 2),
                               [stack[Len(stack) - 1] EXCEPT !.i = @ + 1, !.positions = <<>>])
            /\ pc' = pc
            /\ hist' = [hist EXCEPT !.backtracked = TRUE,
                                    !.entries = SubSeq(@, 1, Len(@) - 1)]
    /\ UNCHANGED <<aside, inputVars, slots, slot_candidates,
                   fallback_attempted, allow_fallback, astarVars,
                   fallback_usage_count, result>>

Retrying == algo = "hybrid" /\ fallback_attempted # {} /\ ~allow_fallback

\* if not success and self.fallback_attempted: _heuristic_dfs(0, allow_fallback=True)
HybridRetry ==
    /\ pc = "failed"
    /\ Retrying
    /\ allow_fallback' = TRUE
    /\ stack' = <<Frame(0)>>
    /\ slot_candidates' = SortedAt(slot_candidates, 0)
    /\ pc' = "search"
    /\ hist' = [hist EXCEPT !.entries = <<solution>>]
    /\ UNCHANGED <<aside, inputVars, solution, slots, fallback_attempted, astarVars,
                   fallback_usage_count, result>>

\* words_placed = self._count_filled_words(); return self._create_result(...)
SearchFinish ==
    /\ \/ pc = "found"
       \/ pc = "failed" /\ ~Retrying
    /\ result' = create_result(solution, pc = "found",
                               count_filled_words(solution, slots), Len(slots))
    /\ pc' = "done"
    /\ UNCHANGED <<aside, inputVars, solution, slots, searchVars, astarVars,
                   fallback_usage_count, hist>>

\* the search state as the heap holds it
HeapState(st) ==
    [grid_hash |-> st.grid_hash, filled_slots |-> st.filled_slots, cost |-> st.cost,
     heuristic |-> st.heuristic, priority |-> st.priority]

\* AStarSolver.solve up to the loop
AstarStart ==
    /\ pc = "constructed"
    /\ algo = "astar"
    /\ slots # <<>>
    /\ LET h == calculate_heuristic(solution, {}, slots)
       IN open_set' = << [grid_hash |-> hash_grid(solution), filled_slots |-> {},
                          cost |-> 0, heuristic |-> h, priority |-> h] >>
    /\ closed_set' = {}
    /\ grid_cache' = (hash_grid(solution) :> solution)
    /\ iteration' = 0
    /\ best_state' = <<>>
    /\ best_filled' = 0
    /\ pc' = "astar"
    /\ hist' = [hist EXCEPT !.start_priority = calculate_heuristic(solution, {}, slots)]
    /\ UNCHANGED <<aside, inputVars, solution, slots, searchVars,
                   fallback_usage_count, result>>

\* the entries heappop can return: the lowest priority; among these the
\* order is that of id(state)
Poppable == { i \in DOMAIN open_set : \A j \in DOMAIN open_set :
                  open_set[i].priority <= open_set[j].priority }

Without(s, i) == SubSeq(s, 1, i - 1) \o SubSeq(s, i + 1, Len(s))

RECURSIVE CacheAll(_, _)
\* if new_grid_hash not in self._grid_cache: self._grid_cache[new_grid_hash] = new_grid
CacheAll(cache, succs) ==
    IF succs = <<>> THEN cache
    ELSE CacheAll(IF Head(succs).grid_hash \in DOMAIN cache THEN cache
                  ELSE cache @@ (Head(succs).grid_hash :> Head(succs).grid),
                  Tail(succs))

\* every successor is pushed, closed or not
push_every_successor(successors, closed) == successors

\* for next_state in successors: if next_state['grid_hash'] in closed_set: continue
open_successors(successors, closed) ==
    SelectSeq(successors, LAMBDA st : st.grid_hash \notin closed)

\* the history after the state with the hash is expanded into the successors
\* of which some are pushed: the most filled slots of a state generated, the
\* hashes expanded in order, the hashes pushed although closed and the hashes
\* of the successors left out
Expanded(grid_hash, successors, pushed, closed) ==
    [hist EXCEPT !.queried = TRUE,
                 !.max_generated = Max2(@, IF successors = <<>> THEN 0
                     ELSE Cardinality(successors[1].filled_slots)),
                 !.expanded = Append(@, grid_hash),
                 !.pushed_closed = @ \cup { pushed[k].grid_hash : k \in
                     { k \in DOMAIN pushed : pushed[k].grid_hash \in closed } },
                 !.skipped = @ \cup { successors[k].grid_hash : k \in
                     { k \in DOMAIN successors : successors[k].grid_hash \in closed } }]

\* one pass of the while loop of AStarSolver.solve with entry i popped
AstarIterate(i) ==
    /\ pc = "astar"
    /\ open_set # <<>>
    /\ iteration < max_iterations
    /\ i \in Poppable
    /\ iteration' = iteration + 1
    /\ LET current_state == open_set[i]
           current_filled == Cardinality(current_state.filled_slots)
           improved == best_state = <<>> \/ current_filled > best_filled
           rest == Without(open_set, i)
           cached == current_state.grid_hash \in DOMAIN grid_cache
           successors ==
               generate_successors(raw, current_state, grid_cache[current_state.grid_hash], slots)
           pushed == open_successors(successors, closed_set \cup {current_state.grid_hash})
       IN /\ best_state' = IF improved THEN current_state ELSE best_state
          /\ best_filled' = IF improved THEN current_filled ELSE best_filled
          /\ IF current_filled = Len(slots)
             THEN /\ open_set' = rest
                  /\ UNCHANGED <<closed_set, grid_cache, hist>>
                  /\ pc' = "done"
                  /\ IF cached
                     THEN /\ solution' = grid_cache[current_state.grid_hash]
                          /\ result' = create_result(grid_cache[current_state.grid_hash],
                                                     TRUE, Len(slots), Len(slots))
                     ELSE /\ solution' = solution
                          /\ result' = create_result(solution, FALSE,
                                  IF improved THEN current_filled ELSE best_filled, Len(slots))
             ELSE IF current_state.grid_hash \in closed_set
             THEN /\ open_set' = rest
                  /\ UNCHANGED <<closed_set, grid_cache, hist, pc, solution, result>>
             ELSE /\ closed_set' = closed_set \cup {current_state.grid_hash}
                  /\ UNCHANGED <<pc, solution, result>>
                  /\ IF ~cached
                     THEN open_set' = rest /\ UNCHANGED <<grid_cache, hist>>
                     ELSE /\ open_set' = rest \o [k \in DOMAIN pushed |-> HeapState(pushed[k])]
                          /\ grid_cache' = CacheAll(grid_cache, successors)
                          /\ hist' = Expanded(current_state.grid_hash, successors, pushed,
                                              closed_set \cup {current_state.grid_hash})
    /\ UNCHANGED <<aside, inputVars, slots, searchVars, fallback_usage_count>>

\* the loop has ended: the best state popped is returned as a partial result
AstarFinish ==
    /\ pc = "astar"
    /\ ~(open_set # <<>> /\ iteration < max_iterations)
    /\ IF best_state # <<>> /\ best_state.grid_hash \in DOMAIN grid_cache
       THEN /\ solution' = grid_cache[best_state.grid_hash]
            /\ result' = create_result(grid_cache[best_state.grid_hash], FALSE,
                                       best_filled, Len(slots))
       ELSE /\ solution' = solution
            /\ result' = create_result(solution, FALSE, 0, Len(slots))
    /\ pc' = "done"
    /\ UNCHANGED <<aside, inputVars, slots, searchVars, astarVars,
                   fallback_usage_count, hist>>

Next ==
    \/ Construct
    \/ SolveNoSlots
    \/ DfsCollect
    \/ HybridCollect
    \/ SearchSkip
    \/ SearchForwardFail
    \/ SearchDescend
    \/ SearchSucceed
    \/ SearchExhaust
    \/ HybridRetry
    \/ SearchFinish
    \/ AstarStart
    \/ \E i \in DOMAIN open_set : AstarIterate(i)
    \/ AstarFinish

Spec == Init /\ [][Next]_vars

\* the word is placed and the loop goes on, whatever the forward check said:
\* the steps of SearchForwardFail and of SearchDescend, and enabled exactly
\* when one of the two is
SearchPlaced ==
    /\ InLoop
    /\ TopFits
    /\ \E placed \in {place_word(solution, TopEntry.slot, TopWord)} :
          \/ /\ solution' = remove_word(placed.grid, placed.positions)
             /\ hist' = [hist EXCEPT !.queried = TRUE]
             /\ stack' = NextCandidate
             /\ slot_candidates' = slot_candidates
          \/ /\ solution' = placed.grid
             /\ hist' = [Seen(placed.grid) EXCEPT !.entries = Append(@, placed.grid)]
             /\ stack' = Append([stack EXCEPT ![Len(stack)].positions = placed.positions],
                                Frame(Top.slot_index + 1))
             /\ slot_candidates' = SortedAt(slot_candidates, Top.slot_index + 1)
    /\ UNCHANGED <<aside, inputVars, pc, slots, fallback_attempted, allow_fallback,
                   astarVars, fallback_usage_count, result>>

\* a step of the recursive search
SearchStep == SearchSkip \/ SearchPlaced \/ SearchSucceed \/ SearchExhaust

\* DFSSolver alone
DfsInit == Init /\ algo = "dfs"

DfsNext ==
    \/ Construct
    \/ SolveNoSlots
    \/ DfsCollect
    \/ SearchSkip
    \/ SearchForwardFail
    \/ SearchDescend
    \/ SearchSucceed
    \/ SearchExhaust
    \/ SearchFinish

\* solve runs in one thread from its call to its return: a step of the search
\* that can be taken is taken
SpecDfsLive == DfsInit /\ [][DfsNext]_vars /\ WF_vars(SearchStep)
-----------------------------------------------------------------------------
(* The greedy solver (solver/astar_solver.py, AStarCrosswordSolver)        *)

\* the cells of the slot in the grid, first to last
Segment(grid, s) ==
    [k \in 1..s.length |-> Cell(grid, SlotX(s, k - 1), SlotY(s, k - 1))]

\* str.isalpha() and str.isupper() of a segment of cells
IsUpperWord(seg) == seg # <<>> /\ \A k \in DOMAIN seg : seg[k] \in Range(UpperAlphabet)

\* x + length <= self.width for across, y + length <= self.height for down
SlotInside(grid, s) ==
    IF s.direction = "across" THEN s.x + s.length <= Width(grid)
    ELSE s.y + s.length <= Height(grid)

\* the test of _get_word_slots on one clue: inside the grid, not pre-filled
\* in the original grid, and with a '.' or a lower-case letter left
slot_to_fill(original_grid, solved, s) ==
    /\ SlotInside(original_grid, s)
    /\ ~IsUpperWord(Segment(original_grid, s))
    /\ \E k \in 1..s.length :
          Segment(solved, s)[k] = EMPTY \/ Segment(solved, s)[k] \in Range(LowerAlphabet)

\* the clues of one direction as slots
SlotsOf(clues, dir) == [i \in DOMAIN clues |-> ClueSlot(clues[i], dir)]

\* AStarCrosswordSolver._get_word_slots
greedy_word_slots(original_grid, solved, p) ==
    SelectSeq(SlotsOf(p.across, "across"), LAMBDA s : slot_to_fill(original_grid, solved, s))
    \o SelectSeq(SlotsOf(p.down, "down"), LAMBDA s : slot_to_fill(original_grid, solved, s))

\* a placement that is never refused
any_placement(solved, s, word) == TRUE

\* AStarCrosswordSolver._is_valid_placement
is_valid_placement(solved, s, word) ==
    \A i \in 0..(Len(word) - 1) :
        Cell(solved, SlotX(s, i), SlotY(s, i)) \in {EMPTY, word[i + 1]}

\* [w['word'].upper() for w in answers if len(w['word']) == length]
OfLength(answers, length) ==
    [i \in DOMAIN SelectSeq(answers, LAMBDA w : Len(w) = length) |->
        Upper(SelectSeq(answers, LAMBDA w : Len(w) = length)[i])]

\* the letter test of _get_candidates_for_slot
fits_grid(solved, s, word) ==
    \A i \in 0..(s.length - 1) :
        Cell(solved, SlotX(s, i), SlotY(s, i)) \in {EMPTY, word[i + 1]}

\* AStarCrosswordSolver._get_candidates_for_slot, the helper having answered
\* raw_candidates
greedy_candidates_for_slot(solved, s, raw_candidates) ==
    IF Len(s.answer) = s.length /\ fits_grid(solved, s, Upper(s.answer))
    THEN <<Upper(s.answer)>>
    ELSE SelectSeq(OfLength(raw_candidates, s.length), LAMBDA w : fits_grid(solved, s, w))

\* score += 10 for every cell of the slot that holds the word's letter
match_score(solved, s, word) ==
    10 * Cardinality({ i \in 0..(Len(word) - 1) :
                         /\ Cell(solved, SlotX(s, i), SlotY(s, i)) # EMPTY
                         /\ Cell(solved, SlotX(s, i), SlotY(s, i)) = word[i + 1] })

RECURSIVE WordBefore(_, _)
\* str < str for words of upper-case letters
WordBefore(a, b) ==
    IF b = <<>> THEN FALSE
    ELSE IF a = <<>> THEN TRUE
    ELSE IF Head(a) # Head(b)
         THEN IndexOf(UpperAlphabet, Head(a)) < IndexOf(UpperAlphabet, Head(b))
         ELSE WordBefore(Tail(a), Tail(b))

\* (score, word) < (score, word)
ScoredBefore(solved, s, a, b) ==
    \/ match_score(solved, s, a) < match_score(solved, s, b)
    \/ match_score(solved, s, a) = match_score(solved, s, b) /\ WordBefore(a, b)

\* scored.sort(reverse=True); return scored[0][1]
best_scored(solved, s, valid) ==
    CHOOSE w \in Range(valid) : \A v \in Range(valid) : ~ScoredBefore(solved, s, w, v)

\* the candidates _place_best_matching_word goes through
to_score(s, candidates, fallback) ==
    IF candidates = <<>> THEN OfLength(fallback, s.length) ELSE candidates

\* AStarCrosswordSolver._place_best_matching_word, the helper having answered
\* fallback when it is asked
place_best_matching_word(solved, s, candidates, fallback) ==
    IF SelectSeq(to_score(s, candidates, fallback),
                 LAMBDA w : is_valid_placement(solved, s, w)) = <<>>
    THEN None
    ELSE best_scored(solved, s, SelectSeq(to_score(s, candidates, fallback),
                                          LAMBDA w : is_valid_placement(solved, s, w)))

\* AStarCrosswordSolver._fill_word_in_grid
fill_word_in_grid(solved, s, word) == OverwriteLoop(solved, s, word, 0, <<>>).grid

\* score = len(candidates) if candidates else float('inf')
ScoreBefore(a, b) ==
    /\ a.candidates # <<>>
    /\ b.candidates = <<>> \/ Len(a.candidates) < Len(b.candidates)

RECURSIVE InsertScored(_, _)
\* the entry put behind the entries of the sorted list that are not after it
InsertScored(sorted, e) ==
    IF sorted = <<>> THEN <<e>>
    ELSE IF ScoreBefore(e, Head(sorted)) THEN <<e>> \o sorted
    ELSE <<Head(sorted)>> \o InsertScored(Tail(sorted), e)

RECURSIVE SortScored(_, _)
\* scored_slots.sort(key=lambda x: x[0]): ascending and stable
SortScored(entries, sorted) ==
    IF entries = <<>> THEN sorted
    ELSE SortScored(Tail(entries), InsertScored(sorted, Head(entries)))

\* the longest answer of the word helper the model draws
MaxAnswers == 2

\* the orders in which the word helper lists its words
WordnetOrders ==
    { << <<"c", "a", "t">>, <<"c", "o", "t">>, <<"d", "o", "g">>, <<"c", "a", "t", "s">> >>,
      << <<"d", "o", "g">>, <<"d", "i", "g">>, <<"c", "o", "t">>, <<"c", "a", "t">> >>,
      << <<"c", "o", "t">>, <<"c", "a", "t", "s">>, <<"c", "a", "t">>, <<"d", "i", "g">> >> }

\* what get_possible_words and get_words_from_clues can answer
WordnetAnswers == { Take(o, n) : o \in WordnetOrders, n \in 0..MaxAnswers }

\* the solver is constructed: self.solved is the grid with ' ' as '.'
GreedyInit ==
    /\ PRIdle
    /\ LoadIdle
    /\ CallIdle
    /\ GenIdle
    /\ RunIdle
    /\ algo = "greedy"
    /\ puzzle \in Puzzles
    /\ raw = <<>>
    /\ pc = "made"
    /\ solution = NormalizeGrid(puzzle.grid)
    /\ slots = <<>>
    /\ slot_candidates = <<>>
    /\ fallback_attempted = {}
    /\ allow_fallback = FALSE
    /\ stack = <<>>
    /\ open_set = <<>>
    /\ closed_set = {}
    /\ grid_cache = <<>>
    /\ best_state = <<>>
    /\ best_filled = 0
    /\ iteration = 0
    /\ fallback_usage_count = 0
    /\ result = <<>>
    /\ hist = NoHistory

greedyRest == <<aside, inputVars, fallback_attempted, allow_fallback, astarVars,
                fallback_usage_count, hist>>

\* solve: if not slots: return {"grid": self.solved, "words_placed": 0, "status": "success"}
GreedyNoSlots ==
    /\ pc = "made"
    /\ greedy_word_slots(puzzle.grid, solution, puzzle) = <<>>
    /\ result' = [grid |-> solution, words_placed |-> 0, status |-> "success"]
    /\ pc' = "done"
    /\ UNCHANGED <<greedyRest, solution, slots, slot_candidates, stack>>

\* solve up to the loop over scored_slots: the candidates of every slot, the
\* slots sorted by their number of candidates
GreedyCollect ==
    /\ pc = "made"
    /\ greedy_word_slots(puzzle.grid, solution, puzzle) # <<>>
    /\ \E ss \in {greedy_word_slots(puzzle.grid, solution, puzzle)} :
          \E answers \in [DOMAIN ss -> WordnetAnswers] :
             /\ slots' = ss
             /\ slot_candidates' =
                   SortScored([i \in DOMAIN ss |->
                                  [slot |-> ss[i],
                                   candidates |->
                                       greedy_candidates_for_slot(solution, ss[i], answers[i])]],
                              <<>>)
    /\ stack' = <<[i |-> 1, placed |-> 0]>>
    /\ pc' = "placing"
    /\ UNCHANGED <<greedyRest, solution, result>>

\* one pass of the loop over scored_slots
GreedyPlace ==
    /\ pc = "placing"
    /\ stack[1].i <= Len(slot_candidates)
    /\ \E e \in {slot_candidates[stack[1].i]} :
          \E fallback \in IF e.candidates = <<>> THEN WordnetAnswers ELSE {<<>>} :
             \E word \in {place_best_matching_word(solution, e.slot, e.candidates, fallback)} :
                IF word # None
                THEN /\ solution' = fill_word_in_grid(solution, e.slot, word)
                     /\ stack' = <<[i |-> stack[1].i + 1, placed |-> stack[1].placed + 1]>>
                ELSE /\ solution' = solution
                     /\ stack' = <<[i |-> stack[1].i + 1, placed |-> stack[1].placed]>>
    /\ UNCHANGED <<greedyRest, pc, slots, slot_candidates, result>>

\* the loop is over: the grid, the counts and the status are returned
GreedyReturn ==
    /\ pc = "placing"
    /\ stack[1].i > Len(slot_candidates)
    /\ result' = [grid |-> solution, words_placed |-> stack[1].placed,
                  total_words |-> Len(slots),
                  status |-> IF stack[1].placed < Len(slots) THEN "partial" ELSE "success"]
    /\ pc' = "done"
    /\ UNCHANGED <<greedyRest, solution, slots, slot_candidates, stack>>

\* the solvers that write whole words: an A* solve or a greedy solve
WholeWordsInit ==
    \/ Init /\ algo = "astar"
    \/ GreedyInit

WholeWordsNext ==
    \/ Construct
    \/ SolveNoSlots
    \/ AstarStart
    \/ \E i \in DOMAIN open_set : AstarIterate(i)
    \/ AstarFinish
    \/ GreedyNoSlots
    \/ GreedyCollect
    \/ GreedyPlace
    \/ GreedyReturn

SpecWholeWords == WholeWordsInit /\ [][WholeWordsNext]_vars

-----------------------------------------------------------------------------
(* Loading the dictionary (DictionaryHelper.__init__, load_dictionary)     *)

\* self.letter_index[c]
letter_index(d, c) ==
    KeysOf(SelectSeq(LoadedEntries(d), LAMBDA e : LowerChar(e.key[1]) = c))

\* the DictionaryHelper after load_dictionary has read the entries es of the
\* files d
Loaded(d, es) ==
    [dictionary |-> [w \in Range(KeysOf(es)) |-> dictionary(d, w)],
     word_length_index |->
         [n \in { Len(es[i].key) : i \in DOMAIN es } |-> word_length_index(d, n)],
     letter_index |->
         [c \in { LowerChar(es[i].key[1]) : i \in DOMAIN es } |-> letter_index(d, c)]]

\* DictionaryHelper.load_dictionary
load_dictionary(d) == Loaded(d, LoadedEntries(d))

\* the most entries of the files read
MaxEntries == 3

\* the files a.json .. z.json are read in this order
FileOrder(e) == IndexOf(LowerAlphabet, e.file)

\* the contents the dictionary files can have: different entries, those of a
\* file together and the files in alphabetic order
LoadInputs ==
    { d \in UNION { [1..n -> LoadPool] : n \in 0..MaxEntries } :
        \A i, j \in DOMAIN d : i < j =>
            /\ d[i] # d[j]
            /\ FileOrder(d[i]) <= FileOrder(d[j]) }

LoadInit ==
    /\ PRIdle
    /\ SearchIdle
    /\ GenIdle
    /\ RunIdle
    /\ CallIdle
    /\ raw \in LoadInputs
    /\ helper = <<>>

\* DictionaryHelper(dictionary_path)
LoadDictionary ==
    /\ helper = <<>>
    /\ helper' = load_dictionary(raw)
    /\ UNCHANGED <<prVars, solverVars, callVars, genVars, runVars>>

SpecLoad == LoadInit /\ [][LoadDictionary]_vars


-----------------------------------------------------------------------------
(* The queries of the dictionary helper, each called on its own            *)

\* DictionaryHelper.get_words_by_length: the headwords of the length until
\* max_words are listed, in capitals, best score first
dict_helper_get_words_by_length(d, length, max_words) ==
    SortDesc([k \in DOMAIN Take(word_length_index(d, length), Max2(1, max_words)) |->
                 [word |-> Upper(word_length_index(d, length)[k]),
                  score |-> word_score(word_length_index(d, length)[k])]],
             LAMBDA w : w.score)

\* the max_words and the length ranges of the calls
QueryMaxWords == {1, 3, 100}

QueryRanges == {<<3, 12>>, <<3, 3>>, <<4, 6>>}

QueryInit ==
    /\ PRIdle
    /\ SearchIdle
    /\ LoadIdle
    /\ GenIdle
    /\ RunIdle
    /\ raw \in QueryDictionaries
    /\ call = <<>>
    /\ ret = <<>>

\* dict_helper.get_words_by_length(length, max_words)
QueryByLength(length, max_words) ==
    /\ call = <<>>
    /\ call' = [op |-> "get_words_by_length", length |-> length, max_words |-> max_words]
    /\ ret' = dict_helper_get_words_by_length(raw, length, max_words)
    /\ UNCHANGED <<prVars, solverVars, loadVars, genVars, runVars>>

\* dict_helper.get_possible_words(clue, max_words, length_range)
QueryPossibleWords(clue, max_words, length_range) ==
    /\ call = <<>>
    /\ call' = [op |-> "get_possible_words", clue |-> clue, max_words |-> max_words,
                length_range |-> length_range]
    /\ ret' = get_possible_words(raw, clue, max_words, length_range[1], length_range[2])
    /\ UNCHANGED <<prVars, solverVars, loadVars, genVars, runVars>>

QueryNext ==
    \/ \E length \in 2..6, max_words \in QueryMaxWords : QueryByLength(length, max_words)
    \/ \E clue \in QueryClues, max_words \in QueryMaxWords, length_range \in QueryRanges :
          QueryPossibleWords(clue, max_words, length_range)

SpecQuery == QueryInit /\ [][QueryNext]_vars

\* grids of a generator: empty, one word, two crossing words, two words in
\* neighbouring columns
FitsGrids ==
    { << <<".", ".", ".", ".">>,
         <<".", ".", ".", ".">>,
         <<".", ".", ".", ".">> >>,
      << <<"C", "A", "T", ".">>,
         <<".", ".", ".", ".">>,
         <<".", ".", ".", ".">> >>,
      << <<".", "C", ".", ".">>,
         <<"T", "O", "E", ".">>,
         <<".", "T", ".", ".">> >>,
      << <<"C", ".", ".", "T">>,
         <<"O", ".", ".", "O">>,
         <<"T", ".", ".", "E">> >> }

\* words of the list: upper-case headwords of three and four letters
FitsWords ==
    { <<"C", "A", "T">>, <<"C", "O", "T">>, <<"T", "O", "E">>, <<"A", "C", "T">>,
      <<"O", "A", "T">>, <<"C", "O", "A", "T">>, <<"T", "A", "C", "O">> }

\* the calls self._fits(puzzle, word, vertical, x, y), origins beside the grid
\* included
FitsCalls ==
    { [op |-> "_fits", grid |-> grid, word |-> word, vertical |-> vertical, x |-> x, y |-> y] :
        grid \in FitsGrids, word \in FitsWords, vertical \in BOOLEAN, x \in -1..4, y \in -1..3 }

FitsInit ==
    /\ PRIdle
    /\ SolverIdle
    /\ LoadIdle
    /\ GenIdle
    /\ RunIdle
    /\ call \in FitsCalls
    /\ ret = <<>>

\* the call returns
FitsReturn ==
    /\ call # <<>>
    /\ ret = <<>>
    /\ ret' = <<fits(call.grid, call.word, call.vertical, call.x, call.y)>>
    /\ UNCHANGED <<prVars, solverVars, loadVars, genVars, runVars, call>>

SpecFits == FitsInit /\ [][FitsReturn]_vars

\* the history of the tries: whether one gave a puzzle, the first puzzle with
\* a density in the band, and the highest and the lowest density of a puzzle
NoTries ==
    [produced |-> FALSE, first_in_band |-> None,
     highest |-> [num |-> 0, den |-> 1], lowest |-> [num |-> 1, den |-> 1]]

Difficulties == {"easy", "medium", "hard"}

GenInit ==
    /\ PRIdle
    /\ SearchIdle
    /\ LoadIdle
    /\ CallIdle
    /\ RunIdle
    /\ raw \in GenDictionaries
    /\ gpc = "request"
    /\ size \in Sizes
    /\ difficulty \in Difficulties
    /\ possible_words = <<>>
    /\ attempt = 0
    /\ gen_puzzle = None
    /\ best_puzzle = None
    /\ best_density = [num |-> 0, den |-> 1]
    /\ generated_puzzle = None
    /\ used_fallback = FALSE
    /\ response = <<>>
    /\ ghist = NoTries

tryVars == <<gen_puzzle, best_puzzle, best_density, generated_puzzle>>

\* generate up to the loop, when randint raises: the except clause answers
GenRaise ==
    /\ gpc = "request"
    /\ initial_lengths(difficulty, size) = {}
    /\ response' = [success |-> FALSE, status |-> 500]
    /\ gpc' = "done"
    /\ UNCHANGED <<prVars, solverVars, loadVars, callVars, runVars, size, difficulty, possible_words,
                   attempt, tryVars, used_fallback, ghist>>

\* generate up to the loop, with the initial length drawn
GenPrepare(initial_length) ==
    /\ gpc = "request"
    /\ initial_length \in initial_lengths(difficulty, size)
    /\ possible_words' = get_words_by_length(raw, initial_length, 100)
    /\ IF get_words_by_length(raw, initial_length, 100) = <<>>
       THEN response' = [success |-> FALSE, status |-> 400] /\ gpc' = "done"
       ELSE response' = response /\ gpc' = "loop"
    /\ UNCHANGED <<prVars, solverVars, loadVars, callVars, runVars, size, difficulty, attempt, tryVars,
                   used_fallback, ghist>>

\* a try begins: the initial word is drawn and generator.generate places it,
\* across or down
GenTry(initial_word, vertical) ==
    /\ gpc = "loop"
    /\ attempt < MAX_GENERATION_TRIES
    /\ attempt' = attempt + 1
    /\ gen_puzzle' = place_initial_word(size, size, initial_word, vertical)
    /\ gpc' = "expanding"
    /\ UNCHANGED <<prVars, solverVars, loadVars, callVars, runVars, size, difficulty, possible_words,
                   best_puzzle, best_density, generated_puzzle, used_fallback,
                   response, ghist>>

\* _generate, one pass of the loop that places the word: the option with the
\* highest potential becomes the current puzzle
GenPlace(word) ==
    /\ gpc = "expanding"
    /\ gen_puzzle # None
    /\ word \notin gen_puzzle.words
    /\ \E options \in {get_best_word_placements(gen_puzzle, word, word_score(word))} :
          /\ options # <<>>
          /\ gen_puzzle' = best_option(options).puzzle
    /\ UNCHANGED <<prVars, solverVars, loadVars, callVars, runVars, gpc, size, difficulty, possible_words,
                   attempt, best_puzzle, best_density, generated_puzzle, used_fallback,
                   response, ghist>>

\* generator.generate returns None: no puzzle with more than one word
GenTryFails ==
    /\ gpc = "expanding"
    /\ (gen_puzzle = None \/ Cardinality(gen_puzzle.words) <= 1)
    /\ gen_puzzle' = None
    /\ gpc' = "loop"
    /\ UNCHANGED <<prVars, solverVars, loadVars, callVars, runVars, size, difficulty, possible_words,
                   attempt, best_puzzle, best_density, generated_puzzle, used_fallback,
                   response, ghist>>

\* the fraction a is greater than the fraction b
Exceeds(a, b) == a.num * b.den > b.num * a.den

\* the history after a try gave the puzzle
Tried(cw) ==
    [produced |-> TRUE,
     first_in_band |-> IF ghist.first_in_band = None
                           /\ in_band(calculate_density(cw), difficulty)
                       THEN cw ELSE ghist.first_in_band,
     highest |-> IF Exceeds(calculate_density(cw), ghist.highest)
                 THEN calculate_density(cw) ELSE ghist.highest,
     lowest |-> IF Exceeds(ghist.lowest, calculate_density(cw))
                THEN calculate_density(cw) ELSE ghist.lowest]

\* generator.generate returns the puzzle; the rest of the loop body
GenTryJudged ==
    /\ gpc = "expanding"
    /\ gen_puzzle # None
    /\ Cardinality(gen_puzzle.words) > 1
    /\ \E density \in {calculate_density(gen_puzzle)} :
          /\ IF denser(density, best_density)
             THEN best_density' = density /\ best_puzzle' = gen_puzzle
             ELSE UNCHANGED <<best_density, best_puzzle>>
          /\ IF in_band(density, difficulty)
             THEN generated_puzzle' = gen_puzzle /\ gpc' = "leave"
             ELSE generated_puzzle' = generated_puzzle /\ gpc' = "loop"
    /\ gen_puzzle' = None
    /\ ghist' = Tried(gen_puzzle)
    /\ UNCHANGED <<prVars, solverVars, loadVars, callVars, runVars, size, difficulty, possible_words,
                   attempt, used_fallback, response>>

\* generated_puzzle or best_puzzle
final_puzzle == IF generated_puzzle # None THEN generated_puzzle ELSE best_puzzle

\* the loop is left
LoopLeft == gpc = "leave" \/ (gpc = "loop" /\ ~(attempt < MAX_GENERATION_TRIES))

\* generate after the loop without a puzzle
GenFail ==
    /\ LoopLeft
    /\ final_puzzle = None
    /\ response' = [success |-> FALSE, status |-> 400]
    /\ gpc' = "done"
    /\ UNCHANGED <<prVars, solverVars, loadVars, callVars, runVars, size, difficulty, possible_words,
                   attempt, tryVars, used_fallback, ghist>>

\* the cells of slots found, with their numbers: a later slot replaces an
\* earlier one at the same cell
numbered_positions(found) ==
    [c \in { <<found[k].x, found[k].y>> : k \in DOMAIN found } |->
        found[CHOOSE k \in DOMAIN found :
                 /\ <<found[k].x, found[k].y>> = c
                 /\ \A j \in DOMAIN found : <<found[j].x, found[j].y>> = c => j <= k].number]

\* a cell as text
Text(c) == <<c>>

\* empty_grid[y][x] = str(numbered_positions[(x, y)])
number_cells(empty_grid, positions) ==
    [r \in DOMAIN empty_grid |-> [c \in DOMAIN empty_grid[r] |->
        IF <<c - 1, r - 1>> \in DOMAIN positions THEN Str(positions[<<c - 1, r - 1>>])
        ELSE Text(empty_grid[r][c])]]

\* the response with a puzzle
generated(d, cw, band, n) ==
    [success |-> TRUE, status |-> 200,
     grid |-> cw.grid,
     empty_grid |-> number_cells(cw.empty_grid,
         numbered_positions(analyze_grid(d, cw, TRUE).across
                            \o analyze_grid(d, cw, TRUE).down)),
     clues |-> get_clues(d, cw),
     stats |-> [word_count |-> Cardinality(cw.words), difficulty |-> band, size |-> n,
                density |-> calculate_density(cw)]]

\* generate after the loop with a puzzle
GenRespond ==
    /\ LoopLeft
    /\ final_puzzle # None
    /\ used_fallback' = (generated_puzzle = None)
    /\ response' = generated(raw, final_puzzle, difficulty, size)
    /\ gpc' = "done"
    /\ UNCHANGED <<prVars, solverVars, loadVars, callVars, runVars, size, difficulty, possible_words,
                   attempt, tryVars, ghist>>

GenNext ==
    \/ GenRaise
    \/ \E initial_length \in 1..12 : GenPrepare(initial_length)
    \/ \E k \in DOMAIN possible_words, vertical \in BOOLEAN :
          GenTry(possible_words[k].word, vertical)
    \/ \E word \in word_list_words(raw, difficulty, size, attempt - 1) : GenPlace(word)
    \/ GenTryFails
    \/ GenTryJudged
    \/ GenFail
    \/ GenRespond

SpecGen == GenInit /\ [][GenNext]_vars

-----------------------------------------------------------------------------
(* Calls of generator.generate: the word lists and initial words           *)

\* three-letter words over A..H, each of which has a placement in the puzzle
\* that a 15x15 generator seeded with ABC builds from those before it
ChainWords ==
    <<
       <<"F", "G", "C">>, <<"A", "D", "C">>, <<"C", "D", "B">>, <<"B", "G", "E">>,
       <<"F", "F", "G">>, <<"F", "B", "D">>, <<"F", "H", "C">>, <<"E", "A", "A">>,
       <<"B", "A", "D">>, <<"D", "C", "A">>, <<"D", "F", "A">>, <<"F", "G", "B">>,
       <<"C", "E", "F">>, <<"H", "G", "G">>, <<"H", "D", "D">>, <<"F", "H", "E">>,
       <<"C", "A", "D">>, <<"G", "F", "F">>, <<"B", "H", "F">>, <<"A", "D", "A">>,
       <<"D", "D", "A">>, <<"E", "D", "F">>, <<"A", "C", "B">>, <<"A", "H", "A">>,
       <<"B", "B", "B">>, <<"C", "H", "C">>, <<"C", "A", "G">>, <<"B", "E", "H">>,
       <<"E", "E", "H">>, <<"E", "H", "F">>, <<"B", "E", "C">>, <<"F", "G", "E">>,
       <<"H", "H", "C">>, <<"H", "D", "G">>, <<"E", "H", "G">>, <<"D", "B", "D">>,
       <<"A", "F", "E">>, <<"C", "H", "E">>, <<"B", "E", "E">>, <<"H", "F", "A">>,
       <<"B", "A", "E">>, <<"E", "F", "B">>, <<"F", "B", "H">>, <<"B", "C", "E">>,
       <<"B", "H", "H">>, <<"E", "B", "F">>, <<"B", "D", "D">>, <<"F", "G", "D">>,
       <<"C", "D", "F">>, <<"E", "D", "D">>, <<"E", "A", "G">>
    >>

FillLetters == <<"I", "J", "K", "L", "M", "N", "O", "P", "Q", "R", "S", "T", "U", "V",
                 "W", "X", "Y", "Z">>

\* the k-th (from 0) three-letter word over I..Z: no letter of it is in a
\* puzzle of words over A..H
Filler(k) ==
    <<FillLetters[((k \div (Len(FillLetters) * Len(FillLetters))) % Len(FillLetters)) + 1],
      FillLetters[((k \div Len(FillLetters)) % Len(FillLetters)) + 1],
      FillLetters[(k % Len(FillLetters)) + 1]>>

\* a long list, given by its shape: blocks of PassAttempts words, each a word
\* of ChainWords followed by words without a placement, all different; then
\* more words without one.  Its n-th word:
LongWord(blocks, n) ==
    IF n <= blocks * PassAttempts /\ (n - 1) % PassAttempts = 0
    THEN ChainWords[((n - 1) \div PassAttempts) + 1]
    ELSE Filler(n - 1 - Min2(blocks, ((n - 1) \div PassAttempts) + 1))

\* a list as generate is handed it: a short one by its words, a long one by
\* its shape
ShortList(words) == [kind |-> "short", words |-> words]

LongList(blocks, more) == [kind |-> "long", blocks |-> blocks, more |-> more]

\* len(word_list) and word_list[n - 1] of a list as handed over
LenOf(given) ==
    IF given.kind = "short" THEN Len(given.words)
    ELSE given.blocks * PassAttempts + given.more

Entry(given, n) ==
    IF given.kind = "short" THEN given.words[n] ELSE LongWord(given.blocks, n)

\* the list object: the list as handed over and the number of entries that
\* pop(0) has taken from its front
ListObject(given) == [given |-> given, popped |-> 0]

\* not word_list
Exhausted(list) == list.popped = LenOf(list.given)

\* word_list[0]
First(list) == Entry(list.given, list.popped + 1)

\* the list after word_list.pop(0)
Pop(list) == [list EXCEPT !.popped = @ + 1]

\* the words of the list
Contents(list) ==
    [n \in 1..(LenOf(list.given) - list.popped) |-> Entry(list.given, list.popped + n)]

\* words over A..H for a 5x5 generator seeded with CAB: FED has no letter of
\* CAB, BAD and ACE cross it, BEACH crosses it in three ways
ShortWords ==
    { <<"F", "E", "D">>, <<"B", "A", "D">>, <<"A", "C", "E">>,
      <<"B", "E", "A", "C", "H">>, <<"C", "A", "B">> }

\* the lists of up to n different words of the set
RECURSIVE ListsOf(_, _)
ListsOf(words, n) ==
    IF n = 0 THEN {<<>>}
    ELSE {<<>>} \cup UNION { { <<word>> \o l : l \in ListsOf(words \ {word}, n - 1) } :
                              word \in words }

-----------------------------------------------------------------------------
(* One call generator.generate(initial_word, word_list, max_attempts) of a *)
(* CrosswordGenerator(size, size), with the calls it makes: the expansion  *)
(* _generate_and_finalize and its passes _generate.  word_list is one list *)
(* object: _generate pops from the list it was handed until it rebinds its *)
(* local name to the retry list.  The entries of the lists are the words;  *)
(* their 'score' is word_score of the word.                                *)

\* the exception of _select_initial_word: self.used_star0ting_letters is no
\* attribute of the generator
AttributeError == [raised |-> "AttributeError"]

\* _select_initial_word: None for an empty list; else the list comprehension
\* reads the missing attribute at its first entry
select_initial_word(word_list) ==
    IF Exhausted(word_list) THEN None ELSE AttributeError

\* the locals of _generate as it starts on the puzzle: its word_list names
\* the caller's list object (own is FALSE) until the retry list is swapped
\* in; from then on it is a list of its own
NewPass(cw) ==
    [own |-> FALSE, word_list |-> <<>>, tried_words |-> <<>>,
     current_puzzle |-> cw, attempt |-> 0]

\* not word_list, in _generate
Swapping(f, list) == IF f.own THEN f.word_list = <<>> ELSE Exhausted(list)

\* if not word_list: word_list, tried_words = tried_words, []
AfterSwap(f, list) ==
    IF Swapping(f, list)
    THEN [f EXCEPT !.word_list = f.tried_words, !.tried_words = <<>>, !.own = TRUE]
    ELSE f

\* word_list[0] in _generate, after the swap
NextWord(f, list) == IF f.own THEN Head(f.word_list) ELSE First(list)

\* the options looked for: none for a word of the puzzle, which is skipped
OptionsFor(cw, word) ==
    IF word \in cw.words THEN <<>>
    ELSE get_best_word_placements(cw, word, word_score(word))

\* what the turn of the loop does with the word
Did(cw, word, options) ==
    IF word \in cw.words THEN "skip"
    ELSE IF options # <<>> THEN "place"
    ELSE "fail"

\* word_dict = word_list.pop(0) and the rest of the loop body, on the locals
\* after the swap: the word is skipped, placed at its best option, or appended
\* to tried_words
Popped(f, word, options) ==
    [own |-> f.own,
     word_list |-> IF f.own THEN Tail(f.word_list) ELSE f.word_list,
     tried_words |-> IF Did(f.current_puzzle, word, options) = "place" THEN <<>>
                     ELSE IF Did(f.current_puzzle, word, options) = "fail"
                     THEN Append(f.tried_words, word)
                     ELSE f.tried_words,
     current_puzzle |-> IF Did(f.current_puzzle, word, options) = "place"
                        THEN best_option(options).puzzle
                        ELSE f.current_puzzle,
     attempt |-> f.attempt + 1]

\* the loop of _generate is over: the range is used up or the break is taken
PassOver(f, list) ==
    \/ ~(f.attempt < PassAttempts)
    \/ (Swapping(f, list) /\ f.tried_words = <<>>)

\* the history of a pass: the words set aside since the retry list was last
\* swapped in, the words placed, and what the last turn did
NoPassHistory == [set_aside |-> {}, placed |-> 0, did |-> "enter", word |-> None]

PassHistory(h, swapped, did, word) ==
    [set_aside |-> (IF swapped THEN {} ELSE h.set_aside)
                   \cup (IF did = "fail" THEN {word} ELSE {}),
     placed |-> h.placed + (IF did = "place" THEN 1 ELSE 0),
     did |-> did,
     word |-> word]

\* the most words of a short list
MaxList == 3

\* the calls of generate by a 5x5 generator: on short lists, with an initial
\* word (one too long for the grid among them) or without one
ShortCalls ==
    { [size |-> 5, initial_word |-> initial_word, word_list |-> word_list,
       max_attempts |-> 3] :
        initial_word \in {None, <<"C", "A", "B">>, <<"B", "A", "D", "G", "E", "D">>},
        word_list \in { ShortList(l) : l \in ListsOf(ShortWords, MaxList) } }

\* the call of a 15x15 generator on the list of 51 blocks and 210 words more
LongCalls ==
    { [size |-> 15, initial_word |-> <<"A", "B", "C">>,
       word_list |-> LongList(Len(ChainWords), 210), max_attempts |-> 3] }

GenerateCalls == ShortCalls \cup LongCalls

GenerateInit ==
    /\ PRIdle
    /\ SolverIdle
    /\ LoadIdle
    /\ CallIdle
    /\ GenIdle
    /\ xpc = "call"
    /\ \E c \in GenerateCalls :
          gen_call = [size |-> c.size, initial_word |-> c.initial_word,
                      word_list |-> ListObject(c.word_list),
                      max_attempts |-> c.max_attempts,
                      attempt |-> 0, vertical |-> FALSE,
                      puzzles |-> <<>>, best_puzzle |-> None]
    /\ fin_call = <<>>
    /\ pass_call = <<>>
    /\ gen_ret = <<>>
    /\ xhist = [call |-> [initial_word |-> gen_call.initial_word,
                          word_list |-> gen_call.word_list.given],
                pass |-> NoPassHistory, expansions |-> 0]

others == <<prVars, solverVars, loadVars, callVars, genVars>>

\* elif not word_list: return None
GenerateEmpty ==
    /\ xpc = "call"
    /\ Exhausted(gen_call.word_list)
    /\ xpc' = "returned"
    /\ gen_ret' = <<None>>
    /\ UNCHANGED <<others, gen_call, fin_call, pass_call, xhist>>

\* the loop over the attempts is entered
GenerateEnter ==
    /\ xpc = "call"
    /\ ~Exhausted(gen_call.word_list)
    /\ xpc' = "attempt"
    /\ UNCHANGED <<others, gen_call, fin_call, pass_call, gen_ret, xhist>>

\* an attempt begins without an initial word: _select_initial_word raises and
\* nothing in generate catches it
SelectRaises ==
    /\ xpc = "attempt"
    /\ gen_call.attempt < gen_call.max_attempts
    /\ gen_call.initial_word = None
    /\ select_initial_word(gen_call.word_list) = AttributeError
    /\ xpc' = "raised"
    /\ gen_ret' = <<AttributeError>>
    /\ UNCHANGED <<others, gen_call, fin_call, pass_call, xhist>>

\* an attempt begins with an initial word: puzzles = []
AttemptBegin ==
    /\ xpc = "attempt"
    /\ gen_call.attempt < gen_call.max_attempts
    /\ gen_call.initial_word # None
    /\ gen_call' = [gen_call EXCEPT !.puzzles = <<>>, !.vertical = FALSE]
    /\ xpc' = "orient"
    /\ UNCHANGED <<others, fin_call, pass_call, gen_ret, xhist>>

\* the orientation after this one, or the end of the for loop over them
NextOrientation(g) ==
    IF g.vertical THEN "judge" ELSE "orient"

\* for vertical in [False, True]: the word does not fit the grid
SeedTooLong ==
    /\ xpc = "orient"
    /\ place_initial_word(gen_call.size, gen_call.size, gen_call.initial_word,
                          gen_call.vertical) = None
    /\ xpc' = NextOrientation(gen_call)
    /\ gen_call' = [gen_call EXCEPT !.vertical = TRUE]
    /\ UNCHANGED <<others, fin_call, pass_call, gen_ret, xhist>>

\* for vertical in [False, True]: the initial word is placed and
\* _generate_and_finalize starts its first pass on the puzzle
Seed ==
    /\ xpc = "orient"
    /\ \E cw \in {place_initial_word(gen_call.size, gen_call.size,
                                     gen_call.initial_word, gen_call.vertical)} :
          /\ cw # None
          /\ fin_call' = [base_puzzle |-> cw, final_puzzle |-> None, iteration |-> 0]
          /\ pass_call' = NewPass(cw)
    /\ xpc' = "pass"
    /\ xhist' = [xhist EXCEPT !.pass = NoPassHistory, !.expansions = @ + 1]
    /\ UNCHANGED <<others, gen_call, gen_ret>>

\* _generate: one turn of its loop.  A pop from the caller's list object
\* shortens the list the caller holds
PassStep ==
    /\ xpc = "pass"
    /\ ~PassOver(pass_call, gen_call.word_list)
    /\ \E f \in {AfterSwap(pass_call, gen_call.word_list)} :
          \E word \in {NextWord(f, gen_call.word_list)} :
             \E options \in {OptionsFor(f.current_puzzle, word)} :
                /\ pass_call' = Popped(f, word, options)
                /\ gen_call' = [gen_call EXCEPT !.word_list = IF f.own THEN @ ELSE Pop(@)]
                /\ xhist' = [xhist EXCEPT !.pass =
                                PassHistory(@, Swapping(pass_call, gen_call.word_list),
                                            Did(f.current_puzzle, word, options), word)]
    /\ UNCHANGED <<others, xpc, fin_call, gen_ret>>

\* the while loop of _generate_and_finalize goes on after the pass returned
GoesOn(fin, returned) ==
    /\ ~(fin.final_puzzle # None /\ fin.iteration > SafetyLimit)
    /\ Cardinality(returned.words) > Cardinality(fin.base_puzzle.words)

\* _generate returns and _generate_and_finalize starts a further pass
PassAgain ==
    /\ xpc = "pass"
    /\ PassOver(pass_call, gen_call.word_list)
    /\ GoesOn(fin_call, pass_call.current_puzzle)
    /\ fin_call' = [base_puzzle |-> pass_call.current_puzzle,
                    final_puzzle |-> pass_call.current_puzzle,
                    iteration |-> fin_call.iteration + 1]
    /\ pass_call' = NewPass(pass_call.current_puzzle)
    /\ xhist' = [xhist EXCEPT !.pass = NoPassHistory]
    /\ UNCHANGED <<others, xpc, gen_call, gen_ret>>

\* puzzles.append(final_puzzle) if it has more than one word
Appended(puzzles, returned) ==
    IF Cardinality(returned.words) > 1 THEN Append(puzzles, returned)
    ELSE puzzles

\* _generate returns and _generate_and_finalize returns the puzzle to generate
Finalized ==
    /\ xpc = "pass"
    /\ PassOver(pass_call, gen_call.word_list)
    /\ ~GoesOn(fin_call, pass_call.current_puzzle)
    /\ gen_call' = [gen_call EXCEPT
                       !.puzzles = Appended(@, pass_call.current_puzzle),
                       !.vertical = TRUE]
    /\ xpc' = NextOrientation(gen_call)
    /\ fin_call' = <<>>
    /\ pass_call' = <<>>
    /\ UNCHANGED <<others, gen_ret, xhist>>

\* max(puzzles, key=lambda p: len(p.words)): the first of the largest
current_best(puzzles) ==
    puzzles[CHOOSE k \in DOMAIN puzzles :
               /\ \A j \in DOMAIN puzzles :
                     Cardinality(puzzles[j].words) <= Cardinality(puzzles[k].words)
               /\ \A j \in 1..(k - 1) :
                     Cardinality(puzzles[j].words) < Cardinality(puzzles[k].words)]

\* the best puzzle after the attempt
BestAfter(g) ==
    IF g.puzzles = <<>> THEN g.best_puzzle
    ELSE IF g.best_puzzle = None
            \/ Cardinality(current_best(g.puzzles).words) > Cardinality(g.best_puzzle.words)
    THEN current_best(g.puzzles)
    ELSE g.best_puzzle

\* the rest of the attempt with words left in the list: the next initial word
\* is the k-th of the first ten
AttemptEnd(k) ==
    /\ xpc = "judge"
    /\ ~Exhausted(gen_call.word_list)
    /\ k <= Min2(10, LenOf(gen_call.word_list.given) - gen_call.word_list.popped)
    /\ gen_call' = [gen_call EXCEPT !.best_puzzle = BestAfter(gen_call),
                                    !.initial_word =
                                        Entry(gen_call.word_list.given,
                                              gen_call.word_list.popped + k),
                                    !.attempt = @ + 1]
    /\ xpc' = "attempt"
    /\ UNCHANGED <<others, fin_call, pass_call, gen_ret, xhist>>

\* the rest of the attempt with the list empty: break
AttemptBreaks ==
    /\ xpc = "judge"
    /\ Exhausted(gen_call.word_list)
    /\ gen_call' = [gen_call EXCEPT !.best_puzzle = BestAfter(gen_call)]
    /\ xpc' = "leave"
    /\ UNCHANGED <<others, fin_call, pass_call, gen_ret, xhist>>

\* after the loop: best_puzzle or None is returned
GenerateReturn ==
    /\ \/ xpc = "leave"
       \/ xpc = "attempt" /\ ~(gen_call.attempt < gen_call.max_attempts)
    /\ xpc' = "returned"
    /\ gen_ret' = <<gen_call.best_puzzle>>
    /\ UNCHANGED <<others, gen_call, fin_call, pass_call, xhist>>

GenerateNext ==
    \/ GenerateEmpty
    \/ GenerateEnter
    \/ SelectRaises
    \/ AttemptBegin
    \/ SeedTooLong
    \/ Seed
    \/ PassStep
    \/ PassAgain
    \/ Finalized
    \/ \E k \in 1..10 : AttemptEnd(k)
    \/ AttemptBreaks
    \/ GenerateReturn

SpecGenerate == GenerateInit /\ [][GenerateNext]_vars

\* ---------------------------------------------------------------------
\* Properties of the result of solve
\* ---------------------------------------------------------------------

Returned == pc = "done"

\* every slot is completely non-EMPTY in the grid
AllSlotsFilled(grid) == \A i \in DOMAIN slots : SlotFilled(grid, slots[i])

\* C3: whenever solve returns status=success, every slot (every clue entry
\* that had an EMPTY cell) is completely filled in the returned grid and
\* words_placed equals total_words
C3_SuccessFillsEverySlot ==
    (Returned /\ result.status = "success") =>
        /\ AllSlotsFilled(result.grid)
        /\ result.words_placed = result.total_words

\* C4: the returned status is success exactly when every slot is completely
\* non-EMPTY in the returned grid
C4_SuccessIffAllFilled ==
    Returned => (result.status = "success" <=> AllSlotsFilled(result.grid))

\* C5: words_placed is the number of slots all of whose cells are non-EMPTY in
\* the returned grid
C5_WordsPlacedCountsFilledSlots ==
    Returned => result.words_placed = count_filled_words(result.grid, slots)

\* no clue entry of the input has an EMPTY cell ('.' or ' ')
NoOpenClue ==
    \A i \in DOMAIN AllClueSlots(puzzle) :
        ~HasEmpty(NormalizeGrid(puzzle.grid), AllClueSlots(puzzle)[i])

\* C6: when no clue entry has an EMPTY cell, solve returns status=success
\* with words_placed = 0 and total_words = 0, every cell of the returned grid
\* is the input's cell (EMPTY, given as '.' or ' ', comes back as '.'), and no
\* dictionary query was made
C6_NothingToSolve ==
    (Returned /\ NoOpenClue) =>
        /\ result.status = "success"
        /\ result.words_placed = 0
        /\ result.total_words = 0
        /\ result.grid = NormalizeGrid(puzzle.grid)
        /\ ~hist.queried

C6_Witness ==
    /\ Returned
    /\ NoOpenClue
    /\ puzzle.across # <<>>
    /\ puzzle.down # <<>>
    /\ \E y \in DOMAIN puzzle.grid : \E x \in DOMAIN puzzle.grid[y] : puzzle.grid[y][x] = " "
    /\ result.status = "success"

\* the cells of the slot hold in the grid what the input held
SlotUntouched(grid, s) ==
    \A c \in SlotCells(s) :
        Cell(grid, c[1], c[2]) = Cell(NormalizeGrid(puzzle.grid), c[1], c[2])

\* C7: in the DFS solver, once a slot has no candidate after the whole
\* fallback ladder, solve has returned (no exception) status=partial with
\* total_words the number of slots, and nothing was placed in that slot
C7_DeadSlotGivesPartial ==
    (algo = "dfs" /\ hist.dead # {}) =>
        /\ Returned
        /\ result.status = "partial"
        /\ result.total_words = Len(slots)
        /\ \A i \in hist.dead : SlotUntouched(result.grid, slots[i])

C7_Witness ==
    /\ algo = "dfs"
    /\ Returned
    /\ \E i \in hist.dead :
          /\ slots[i].length > 3
          /\ \E j \in DOMAIN slots : j \notin hist.dead
    /\ result.status = "partial"

\* a clue entry of the input has a cell outside the grid
OutsideClue ==
    \E i \in DOMAIN AllClueSlots(puzzle) :
        \E c \in SlotCells(AllClueSlots(puzzle)[i]) : ~InBounds(puzzle.grid, c[1], c[2])

\* C8: with a clue entry that has a cell outside the grid, constructing the
\* solver and calling solve raise nothing, and the result has status=partial
C8_OutsideClueGivesPartial ==
    OutsideClue =>
        /\ pc # "raised"
        /\ Returned => result.status = "partial"

\* C9: a result reports fallback_usage_count >= 1 when the fallback ladder
\* was entered for a slot during the solve, and 0 when it was not
C9_FallbackCounted ==
    Returned =>
        IF hist.fallback_entered THEN result.fallback_usage_count >= 1
        ELSE result.fallback_usage_count = 0

\* C10: when the DFS or Hybrid solver returns status=partial after searching,
\* no grid the search visited had more filled slots than the returned grid,
\* and words_placed is that maximum
C10_PartialReturnsBestGrid ==
    (Returned /\ algo \in {"dfs", "hybrid"} /\ slot_candidates # <<>>
     /\ result.status = "partial") =>
        /\ hist.max_filled <= count_filled_words(result.grid, slots)
        /\ result.words_placed = hist.max_filled

\* A* ended its loop without returning success
AstarGaveUp == Returned /\ algo = "astar" /\ slots # <<>> /\ result.status = "partial"

\* C11: A* pops at most max_iterations states, and when it stops without
\* success the result is partial, its words_placed is the largest number of
\* filled slots of any state the search has seen, and its grid is the grid of
\* the best state.
C11_PartialReturnsBestSeen ==
    /\ iteration <= max_iterations
    /\ AstarGaveUp =>
        /\ result.words_placed = Max2(hist.max_generated, best_filled)
        /\ result.grid = NormalizeGrid(grid_cache[best_state.grid_hash])

\* the hashes of the sequence are pairwise different
NoRepeat(hashes) ==
    \A i, j \in DOMAIN hashes : hashes[i] = hashes[j] => i = j

\* C12: during one A* solve no grid hash has its successors generated more
\* than once, and no successor whose grid hash is in the closed set is pushed
\* onto the open set.
C12_ClosedSetRespected ==
    algo = "astar" =>
        /\ NoRepeat(hist.expanded)
        /\ hist.pushed_closed = {}
        /\ \A k \in DOMAIN hist.expanded : hist.expanded[k] \in closed_set

\* A* has expanded two states and left out a successor whose hash was closed
C12_Witness ==
    /\ Returned
    /\ algo = "astar"
    /\ Len(hist.expanded) >= 2
    /\ hist.skipped # {}

\* C13: the A* heuristic is admissible and never negative: the start state of
\* a search that ends in a complete solution has cost + heuristic of at most
\* the cost of that solution, the number of slots, and no state of the open
\* set has a negative heuristic.
C13_HeuristicAdmissible ==
    /\ \A k \in DOMAIN open_set : open_set[k].heuristic >= 0
    /\ (Returned /\ algo = "astar" /\ slots # <<>> /\ result.status = "success") =>
           hist.start_priority <= Len(slots)

\* C14: the order in which A* pops its open set is fixed by the grid, the clues
\* and the dictionary: whenever a state is popped, every open-set entry that
\* could be popped in its place is that same state.
C14_PopOrderFixedByInputs ==
    (pc = "astar" /\ iteration < max_iterations) =>
        \A i, j \in Poppable : open_set[i] = open_set[j]

\* the headwords of the by-length and by-first-letter indices of a helper
Indexed(h) ==
    UNION { Range(h.word_length_index[n]) : n \in DOMAIN h.word_length_index }
        \cup UNION { Range(h.letter_index[c]) : c \in DOMAIN h.letter_index }

\* a headword load_dictionary is to keep
ValidHeadword(w) ==
    /\ IsAlpha(w)
    /\ 3 <= Len(w) /\ Len(w) <= 15
    /\ Lower(w) \notin BLACKLIST_WORDS

\* C20: after load_dictionary every headword of the dictionary and of the
\* by-length and by-first-letter indices is alphabetic, 3 to 15 letters long,
\* not blacklisted and has a non-empty meanings list, and an entry that
\* violates one of these is in no index.
C20_LoadKeepsValidHeadwords ==
    helper # <<>> =>
        /\ \A w \in DOMAIN helper.dictionary \cup Indexed(helper) :
              /\ ValidHeadword(w)
              /\ w \in DOMAIN helper.dictionary
              /\ helper.dictionary[w].meanings # <<>>
        /\ \A i \in DOMAIN raw :
              (~ValidHeadword(raw[i].key) \/ raw[i].meanings = <<>>) =>
                  /\ Lower(raw[i].key) \notin Indexed(helper)
                  /\ Lower(raw[i].key) \in DOMAIN helper.dictionary =>
                         helper.dictionary[Lower(raw[i].key)] # raw[i]

\* the cell x, y is a cell of the placement
Covers(p, x, y) ==
    \E i \in 0..(Len(p.word) - 1) :
        LocX(p.x, p.vertical, i) = x /\ LocY(p.y, p.vertical, i) = y

\* the cell and the cell dx, dy further both hold a letter
LettersTouch(grid, x, y, dx, dy) == Occupied(grid, x, y) /\ Occupied(grid, x + dx, y + dy)

\* every two cells with letters that share a side are cells of one placement
TouchingInsideWord(cw) ==
    \A x \in 0..(Width(cw.grid) - 1), y \in 0..(Height(cw.grid) - 1) :
        /\ LettersTouch(cw.grid, x, y, 1, 0) =>
               \E p \in cw.placed : Covers(p, x, y) /\ Covers(p, x + 1, y)
        /\ LettersTouch(cw.grid, x, y, 0, 1) =>
               \E p \in cw.placed : Covers(p, x, y) /\ Covers(p, x, y + 1)

\* C16: after any placements the fit test accepted on a seeded grid, every
\* two orthogonally adjacent cells with letters lie inside one placed word.
C16_NoStrayAdjacency ==
    gen_puzzle # None => TouchingInsideWord(gen_puzzle)

\* a puzzle of three placements, two of them side by side two columns apart
C16_Witness ==
    /\ gen_puzzle # None
    /\ Cardinality(gen_puzzle.placed) >= 3
    /\ \E p, q \in gen_puzzle.placed : p.vertical /\ q.vertical /\ q.x = p.x + 2

\* the slots analyze_grid finds, as placements
FoundPlacements(found) ==
    { Placement(found.across[k].x, found.across[k].y, FALSE, found.across[k].word) :
        k \in DOMAIN found.across }
    \cup { Placement(found.down[k].x, found.down[k].y, TRUE, found.down[k].word) :
        k \in DOMAIN found.down }

\* the cell of a before the cell of b in row-major order
RowMajorBefore(a, b) == a.y < b.y \/ (a.y = b.y /\ a.x < b.x)

\* the numbers are 1..N in row-major order of the start cells, one per cell
NumberedInOrder(found) ==
    /\ { found[k].number : k \in DOMAIN found }
           = 1..Cardinality({ <<found[k].x, found[k].y>> : k \in DOMAIN found })
    /\ \A j, k \in DOMAIN found :
          found[j].number < found[k].number <=> RowMajorBefore(found[j], found[k])

\* analyze_grid finds the placed words of the puzzle, numbered in order
SlotsArePlacedWords(d, cw, found) ==
    /\ FoundPlacements(found) = cw.placed
    /\ { p.word : p \in FoundPlacements(found) } = cw.words
    /\ NumberedInOrder(found.across \o found.down)

\* C17: for every puzzle the generator reaches, the across and down runs of
\* two or more letters that analyze_grid lists are exactly the placed words,
\* numbered 1..N in row-major order of their start cells, an across and a
\* down slot at one cell sharing the number.
C17_SlotsArePlacedWords ==
    gen_puzzle # None =>
        SlotsArePlacedWords(raw, gen_puzzle, analyze_grid(raw, gen_puzzle, FALSE))

\* the numbers of the clues that start at the cell, as text
NumbersAt(clues, x, y) ==
    { Str((clues.across \o clues.down)[k].number) :
        k \in { k \in DOMAIN (clues.across \o clues.down) :
                  /\ (clues.across \o clues.down)[k].x = x
                  /\ (clues.across \o clues.down)[k].y = y } }

\* C18: in the generation output every cell of empty_grid is '.' or the
\* number of a slot starting there, every slot-start cell carries its
\* number, and no cell of empty_grid holds a letter of an answer.
C18_EmptyGridHoldsNumbersOnly ==
    (gpc = "done" /\ response.success) =>
        \A x \in 0..(size - 1), y \in 0..(size - 1) :
            /\ Cell(response.empty_grid, x, y)
                   \in {Text(EMPTY)} \cup NumbersAt(response.clues, x, y)
            /\ NumbersAt(response.clues, x, y) # {} =>
                   Cell(response.empty_grid, x, y) \in NumbersAt(response.clues, x, y)
            /\ ~\E k \in DOMAIN Cell(response.empty_grid, x, y) :
                   IsLetter(Cell(response.empty_grid, x, y)[k])

RECURSIVE AnswersWritten(_, _, _)
\* the grid with the answers of the clues written into it
AnswersWritten(grid, clues, vertical) ==
    IF clues = <<>> THEN grid
    ELSE AnswersWritten(WriteWord(grid, clues[1].x, clues[1].y, vertical, clues[1].answer),
                        Tail(clues), vertical)

\* the grid of the generated puzzle that the solver's input was made from
GeneratorGrid ==
    AnswersWritten(AnswersWritten(puzzle.grid, puzzle.across, FALSE), puzzle.down, TRUE)

\* C15: for every puzzle the generator returns, the solver given the emptied
\* grid and the generator's clue list returns status success and a grid equal
\* cell for cell to the generator's grid, also over a dictionary where two
\* headwords of one length share a definition.
C15_RoundTripRestoresGrid ==
    (Returned /\ raw \in RoundTripDictionaries) =>
        /\ result.status = "success"
        /\ result.grid = GeneratorGrid

\* C21: with no entry loaded, every candidate query returns an empty list:
\* get_words_by_length for every length and get_possible_words for every
\* clue, also one of stopwords or one-letter tokens only, max_words and
\* length range.
C21_EmptyDictionaryGivesNothing ==
    (LoadedEntries(raw) = <<>> /\ call # <<>>) => ret = <<>>

\* the headword has a meaning of positive relevance to the clue
RelevantTo(d, clue, word) ==
    /\ InDictionary(d, Lower(word))
    /\ \E i \in DOMAIN dictionary(d, Lower(word)).meanings :
          score_word_definition(dictionary(d, Lower(word)).meanings[i], ClueWords(clue)) > 0

\* no headword twice in the list
EachWordOnce(list) == \A i, j \in DOMAIN list : list[i].word = list[j].word => i = j

\* the list is in non-increasing order of the relevance it carries
BestFirst(list) ==
    \A i, j \in DOMAIN list : i < j => list[i].relevance_score >= list[j].relevance_score

\* a call of get_possible_words with a clue has returned
ClueQueried == call # <<>> /\ call.op = "get_possible_words" /\ call.clue # <<>>

\* C22: for every non-empty clue, max_words and length range, the list
\* get_possible_words returns has each headword at most once, only entries of
\* positive relevance to the clue, non-increasing relevance and at most
\* max_words entries.
C22_ByClueListIsClean ==
    ClueQueried =>
        /\ EachWordOnce(ret)
        /\ \A i \in DOMAIN ret : RelevantTo(raw, call.clue, ret[i].word)
        /\ BestFirst(ret)
        /\ Len(ret) <= call.max_words

\* every meaning of the entry has the optional speech_part field
Complete(e) == \A i \in DOMAIN e.meanings : "speech_part" \in e.meanings[i].fields

\* the headwords of the dictionary within the length range of the call
InRange(d, length_range) ==
    Range(WordsInRange(d, length_range[1], length_range[2]))

\* C23: in a by-clue query over a dictionary with an entry that fails to
\* process (a meaning without speech_part), only that entry is skipped: every
\* other entry of positive relevance is returned, as far as max_words allows,
\* and no word from outside the loaded dictionary is returned.
C23_OnlyFailingEntrySkipped ==
    (ClueQueried /\ ClueWords(call.clue) # {}
       /\ \E w \in InRange(raw, call.length_range) : ~Complete(dictionary(raw, w))) =>
        /\ \A w \in InRange(raw, call.length_range) :
              (Complete(dictionary(raw, w)) /\ RelevantTo(raw, call.clue, w)) =>
                  \/ \E i \in DOMAIN ret : ret[i].word = Upper(w)
                  \/ Len(ret) >= call.max_words
        /\ \A i \in DOMAIN ret : InDictionary(raw, Lower(ret[i].word))

\* C24: every Hybrid solve result carries a mode_switches counter, 0 when the
\* first phase filled every slot and 1 when the solver switched to its second
\* phase.
C24_ModeSwitchesCounted ==
    (Returned /\ algo = "hybrid" /\ result # Raised) =>
        /\ DOMAIN result \subseteq ResultKeys
        /\ "mode_switches" \in ResultKeys
        /\ "mode_switches" \in DOMAIN result
        /\ result.mode_switches = (IF allow_fallback THEN 1 ELSE 0)

\* the entry a of slot_candidates may come before the entry b: fewer
\* candidates, or as many and more crossing slots, or equal on both and no
\* higher slot number
MayPrecede(a, b) ==
    \/ Len(a.candidates) < Len(b.candidates)
    \/ /\ Len(a.candidates) = Len(b.candidates)
       /\ get_slot_constraint_level(slots, a.slot) > get_slot_constraint_level(slots, b.slot)
    \/ /\ Len(a.candidates) = Len(b.candidates)
       /\ get_slot_constraint_level(slots, a.slot) = get_slot_constraint_level(slots, b.slot)
       /\ a.slot.number <= b.slot.number

\* C25: the DFS processing order is by ascending number of collected
\* candidates, then by descending number of crossing slots, and slots equal
\* on both are in ascending order of their slot number.
C25_DfsOrderOfSlots ==
    algo = "dfs" =>
        \A i, j \in DOMAIN slot_candidates :
            i < j => MayPrecede(slot_candidates[i], slot_candidates[j])

\* the calls of the search that hold a word in their slot: every call but the
\* innermost has placed its candidate and not yet removed it
Assigned == IF pc = "search" /\ algo \in {"dfs", "hybrid"} THEN 1..(Len(stack) - 1) ELSE {}

AssignedSlot(k) == slot_candidates[stack[k].slot_index + 1].slot

AssignedWord(k) ==
    LET c == slot_candidates[stack[k].slot_index + 1].candidates[stack[k].i]
    IN  IF algo = "hybrid" THEN c.word ELSE c

\* the cells along the slot spell exactly the word
Spells(grid, s, word) ==
    /\ Len(word) = s.length
    /\ \A i \in 0..(s.length - 1) :
          /\ InBounds(grid, SlotX(s, i), SlotY(s, i))
          /\ Cell(grid, SlotX(s, i), SlotY(s, i)) = word[i + 1]

\* two slots with words agree on the letter of every cell they share
AgreeOnShared(s, word, t, other) ==
    \A i \in 0..(s.length - 1), j \in 0..(t.length - 1) :
        (SlotX(s, i) = SlotX(t, j) /\ SlotY(s, i) = SlotY(t, j)) =>
            (i + 1 \in DOMAIN word /\ j + 1 \in DOMAIN other /\ word[i + 1] = other[j + 1])

\* C26: at every point of a DFS or Hybrid search the cells of every slot with
\* a word assigned spell exactly that word, and any two assigned slots agree
\* on the letter of a shared cell.
C26_AssignedSlotsSpellTheirWords ==
    /\ \A k \in Assigned : Spells(solution, AssignedSlot(k), AssignedWord(k))
    /\ \A k, m \in Assigned :
          AgreeOnShared(AssignedSlot(k), AssignedWord(k), AssignedSlot(m), AssignedWord(m))

\* two crossing slots hold words after a call of the search returned False to
\* its caller, which removed its word
C26_Witness ==
    /\ \E k, m \in Assigned :
          /\ AssignedSlot(k).direction # AssignedSlot(m).direction
          /\ SlotCells(AssignedSlot(k)) \cap SlotCells(AssignedSlot(m)) # {}
    /\ hist.backtracked

\* a DFS search is under way
DfsSearching == algo = "dfs" /\ pc = "search"

\* the slot index of every call is within 0..#slots
IndexInRange ==
    DfsSearching => \A k \in DOMAIN stack : stack[k].slot_index \in 0..Len(slot_candidates)

\* the search ends as succeeded only from a call at k = #slots, and as
\* exhausted only from the call at k = 0 with every candidate tried
TerminalStep ==
    /\ (DfsSearching /\ pc' = "found") => Top.slot_index = Len(slot_candidates)
    /\ (DfsSearching /\ pc' = "failed") =>
          /\ Len(stack) = 1
          /\ Top.slot_index = 0
          /\ Top.i > Len(TopEntry.candidates)

\* C27: every DFS search terminates: the slot index stays within 0..#slots,
\* and the search reaches exactly one terminal state, succeeded (k = #slots
\* reached) or exhausted (every candidate of the slot at k = 0 tried).
C27_DfsSearchTerminates ==
    /\ []IndexInRange
    /\ [][TerminalStep]_vars
    /\ DfsSearching ~> (algo = "dfs" /\ pc \in {"found", "failed"})
    /\ [](algo = "dfs" /\ pc = "found" => [](pc # "failed"))
    /\ [](algo = "dfs" /\ pc = "failed" => [](pc # "found"))

\* a DFS search has succeeded after one of its calls returned False
C27_Witness == algo = "dfs" /\ pc = "found" /\ hist.backtracked


\* the entries of slot_candidates after the top call's that cross its slot:
\* the slots not yet assigned that share a cell with it
CrossingLater ==
    { idx \in DOMAIN slot_candidates :
        /\ idx > Top.slot_index + 1
        /\ slot_candidates[idx].slot.direction # TopEntry.slot.direction
        /\ SlotCells(slot_candidates[idx].slot) \cap SlotCells(TopEntry.slot) # {} }

\* a crossing slot not yet assigned has no word in its collected list that is
\* consistent with the grid
SomeListRunsDry(grid) ==
    \E idx \in CrossingLater :
        \A k \in DOMAIN slot_candidates[idx].candidates :
            ~check_word_fits(grid, slot_candidates[idx].slot, slot_candidates[idx].candidates[k])

\* the DFS search places the word of the top call
DfsPlacing == algo = "dfs" /\ InLoop /\ TopFits

\* the step removes the placed word and goes on to the next candidate
Rejected == Len(stack') = Len(stack) /\ stack' = NextCandidate

\* C28: the DFS forward check rejects a placement exactly when some crossing
\* slot not yet assigned has no word in its collected candidate list that is
\* consistent with the grid after the placement.
C28_ForwardCheckByCollectedList ==
    [][DfsPlacing =>
          (Rejected <=> SomeListRunsDry(place_word(solution, TopEntry.slot, TopWord).grid))]_vars

\* the lists DFSSolver collects for the slots, on the grid of the constructor
CollectedLists == collect_all(raw, NormalizeGrid(puzzle.grid), slots)

LongestList(lists) ==
    IF lists = <<>> THEN 0
    ELSE CHOOSE n \in { Len(lists[i].candidates) : i \in DOMAIN lists } :
            \A i \in DOMAIN lists : Len(lists[i].candidates) <= n

\* the ways to pick one word of its list for every slot
Picks(lists) ==
    { f \in [DOMAIN lists -> 1..LongestList(lists)] :
        \A i \in DOMAIN lists : f[i] \in DOMAIN lists[i].candidates }

PickedWord(lists, f, i) == lists[i].candidates[f[i]]

\* the picked words agree with the pre-filled letters and with each other
Agreeing(grid, lists, f) ==
    /\ \A i \in DOMAIN lists : check_word_fits(grid, lists[i].slot, PickedWord(lists, f, i))
    /\ \A i, j \in DOMAIN lists :
          AgreeOnShared(lists[i].slot, PickedWord(lists, f, i),
                        lists[j].slot, PickedWord(lists, f, j))

Assignments(grid, lists) == { f \in Picks(lists) : Agreeing(grid, lists, f) }

\* the grid holds the picked word in every slot
Realises(grid, lists, f) ==
    \A i \in DOMAIN lists : Spells(grid, lists[i].slot, PickedWord(lists, f, i))

\* C29: DFS returns success if and only if some assignment picks for every
\* slot a word of its collected list so that the words agree with each other
\* and with the pre-filled letters, and on success the returned grid realises
\* such an assignment (the only one, when it is unique).
C29_DfsSucceedsIffAssignable ==
    (Returned /\ algo = "dfs" /\ result # Raised) =>
        /\ (result.status = "success") <=>
              (Assignments(NormalizeGrid(puzzle.grid), CollectedLists) # {})
        /\ (result.status = "success") =>
              \E f \in Assignments(NormalizeGrid(puzzle.grid), CollectedLists) :
                  Realises(result.grid, CollectedLists, f)

\* a call of _fits has returned
FitsReturned == call # <<>> /\ call.op = "_fits" /\ ret # <<>>

\* the cell of the i-th letter (i from 0) of the word of the call
FitsCell(i) ==
    IF call.vertical THEN <<call.x, call.y + i>> ELSE <<call.x + i, call.y>>

\* the cell at (x, y) is outside the grid or EMPTY
EmptyIfInside(grid, x, y) == InBounds(grid, x, y) => Cell(grid, x, y) = EMPTY

\* (a) every cell of the word is in bounds
FitsA == \A i \in 0..(Len(call.word) - 1) : InBounds(call.grid, FitsCell(i)[1], FitsCell(i)[2])

\* (b) each cell is EMPTY or holds the word's letter
FitsB ==
    \A i \in 0..(Len(call.word) - 1) :
        Cell(call.grid, FitsCell(i)[1], FitsCell(i)[2]) \in {EMPTY, call.word[i + 1]}

\* (c) at every EMPTY cell both perpendicular neighbours inside the grid are EMPTY
FitsC ==
    \A i \in 0..(Len(call.word) - 1) :
        Cell(call.grid, FitsCell(i)[1], FitsCell(i)[2]) = EMPTY =>
            IF call.vertical
            THEN /\ EmptyIfInside(call.grid, FitsCell(i)[1] - 1, FitsCell(i)[2])
                 /\ EmptyIfInside(call.grid, FitsCell(i)[1] + 1, FitsCell(i)[2])
            ELSE /\ EmptyIfInside(call.grid, FitsCell(i)[1], FitsCell(i)[2] - 1)
                 /\ EmptyIfInside(call.grid, FitsCell(i)[1], FitsCell(i)[2] + 1)

\* (d) the cells before the origin and after the end, inside the grid, are EMPTY
FitsD ==
    /\ EmptyIfInside(call.grid, FitsCell(-1)[1], FitsCell(-1)[2])
    /\ EmptyIfInside(call.grid, FitsCell(Len(call.word))[1], FitsCell(Len(call.word))[2])

\* (e) at least one cell of the word already holds its letter
FitsE ==
    \E i \in 0..(Len(call.word) - 1) :
        Cell(call.grid, FitsCell(i)[1], FitsCell(i)[2]) = call.word[i + 1]

-----------------------------------------------------------------------------
(* The calls of generator.generate                                         *)

\* generate was called without an initial word and with a list that is not
\* empty
Seedless == xhist.call.initial_word = None /\ LenOf(xhist.call.word_list) > 0

\* C35: a call of generate without an initial word and with a candidate pool
\* that is not empty never ends with an exception leaving generate: it picks
\* an initial word of the pool and returns a puzzle or None
C35_SeedlessCallReturns ==
    Seedless => xpc # "raised" /\ (xpc = "orient" => gen_call.initial_word # None)

\* _generate_and_finalize has just been called on a seeded puzzle
ExpansionStarts ==
    xpc = "pass" /\ fin_call.final_puzzle = None /\ pass_call.attempt = 0

\* C39: within one call of generate every expansion of a seeded puzzle (the
\* across-seeded and the down-seeded one of an attempt, and those of the
\* later attempts) starts on the word list as the first expansion found it:
\* no expansion takes words from the list of the others
C39_PoolSameForEveryExpansion ==
    ExpansionStarts => Contents(gen_call.word_list) = Contents(ListObject(xhist.call.word_list))

\* C31: in a pass of _generate a candidate without a placement is set aside
\* in the retry list and stays there until the retry list is swapped in, also
\* when other candidates are placed in between; so it is tried again when the
\* main list empties, and the pass ends before its cap only when nothing set
\* aside is left to try
C31_SetAsideUntilSwappedIn ==
    xpc = "pass" => xhist.pass.set_aside \subseteq Range(pass_call.tried_words)

\* _generate_and_finalize starts a further pass
FurtherPass ==
    xpc = "pass" /\ xpc' = "pass" /\ fin_call'.iteration = fin_call.iteration + 1

\* C32: the expansion stays within its caps: a pass of _generate makes at
\* most 100 turns, _generate_and_finalize makes at most 50 further passes
\* after the first, and a further pass is made only when the pass before it
\* added a word to the puzzle
C32_ExpansionWithinCaps ==
    /\ [](xpc = "pass" => /\ pass_call.attempt <= PassAttempts
                          /\ fin_call.iteration <= SafetyLimit)
    /\ [][FurtherPass =>
             Cardinality(pass_call.current_puzzle.words)
                 > Cardinality(fin_call.base_puzzle.words)]_vars

\* the cells of the grid that hold a letter, as <<x, y>>
LetterCells(grid) ==
    { c \in (0..(Width(grid) - 1)) \X (0..(Height(grid) - 1)) : Cell(grid, c[1], c[2]) # EMPTY }

\* the cells of the set beside a cell of the frontier and not reached yet
Beside(cells, reached, frontier) ==
    { c \in UNION { { <<d[1] - 1, d[2]>>, <<d[1] + 1, d[2]>>,
                      <<d[1], d[2] - 1>>, <<d[1], d[2] + 1>> } : d \in frontier } :
        c \in cells /\ c \notin reached }

RECURSIVE Flood(_, _, _)
\* the cells of the set joined to the cells reached by orthogonal steps
Flood(cells, reached, frontier) ==
    IF frontier = {} THEN reached
    ELSE Flood(cells, reached \cup Beside(cells, reached, frontier),
               Beside(cells, reached, frontier))

\* the cells with a letter form one orthogonally connected region
OneRegion(grid) ==
    /\ LetterCells(grid) # {}
    /\ \E c \in {CHOOSE c \in LetterCells(grid) : TRUE} :
          Flood(LetterCells(grid), {c}, {c}) = LetterCells(grid)

\* every word placed is still spelled by its cells
LettersKept(cw) ==
    \A p \in cw.placed : \A i \in 0..(Len(p.word) - 1) :
        Cell(cw.grid, LocX(p.x, p.vertical, i), LocY(p.y, p.vertical, i)) = p.word[i + 1]

\* the turn before gave the expansion a puzzle it did not have: the seeded
\* one, or one with a word placed
NewPuzzle == xpc = "pass" /\ xhist.pass.did \in {"enter", "place"}

\* C38: in every puzzle the generator reaches from a seeded grid the cells
\* with a letter form one orthogonally connected region, and every letter
\* written by a placement is in its cell in every puzzle derived from it
C38_OneRegionLettersKept ==
    /\ NewPuzzle => OneRegion(pass_call.current_puzzle.grid)
    /\ xpc = "pass" => LettersKept(pass_call.current_puzzle)

\* a puzzle of the seed and two words placed, the last one by this turn
C38_Witness ==
    /\ xpc = "pass"
    /\ xhist.pass.did = "place"
    /\ Cardinality(pass_call.current_puzzle.words) >= 3
    /\ \E p, q \in pass_call.current_puzzle.placed : p.vertical /\ ~q.vertical

-----------------------------------------------------------------------------
(* The candidate lists of the DFS solver                                   *)

\* the word leaves every letter of the grid along the slot as it is
KeepsLetters(grid, s, word) ==
    \A i \in 0..(s.length - 1) :
        InBounds(grid, SlotX(s, i), SlotY(s, i)) =>
            \/ Cell(grid, SlotX(s, i), SlotY(s, i)) = EMPTY
            \/ (i + 1 \in DOMAIN word /\ Cell(grid, SlotX(s, i), SlotY(s, i)) = word[i + 1])

\* no word is twice in the list
OnceEach(list) == \A i, j \in DOMAIN list : list[i] = list[j] => i = j

\* the grid the lists were collected on: the one the constructor made
CollectionGrid == NormalizeGrid(puzzle.grid)

\* the DFS solver has collected its lists
DfsCollected == algo = "dfs" /\ hist.queried /\ slot_candidates # <<>>

\* C33: every word of the candidate list the DFS solver collected for a slot
\* has the slot's length, agrees with every letter the grid held along the
\* slot when the list was collected, and is in the list once.
C33_CollectedListsFit ==
    DfsCollected =>
        \A k \in DOMAIN slot_candidates :
            /\ OnceEach(slot_candidates[k].candidates)
            /\ \A n \in DOMAIN slot_candidates[k].candidates :
                  /\ Len(slot_candidates[k].candidates[n]) = slot_candidates[k].slot.length
                  /\ KeepsLetters(CollectionGrid, slot_candidates[k].slot,
                                  slot_candidates[k].candidates[n])

\* a slot over a letter of the grid has a list of two words or more, and the
\* fallback ladder made one of the lists
C33_Witness ==
    /\ DfsCollected
    /\ hist.fallback_entered
    /\ \E k \in DOMAIN slot_candidates :
          /\ Len(slot_candidates[k].candidates) >= 2
          /\ \E i \in 0..(slot_candidates[k].slot.length - 1) :
                Cell(CollectionGrid, SlotX(slot_candidates[k].slot, i),
                     SlotY(slot_candidates[k].slot, i)) \notin {EMPTY, "#"}

-----------------------------------------------------------------------------
(* The states of the A* open set                                           *)

\* every cell of every slot with the identity holds something in the grid
FilledIn(grid, key) ==
    \A i \in SlotsOfKey(slots, key) : \A n \in 0..(slots[i].length - 1) :
        /\ InBounds(grid, SlotX(slots[i], n), SlotY(slots[i], n))
        /\ Cell(grid, SlotX(slots[i], n), SlotY(slots[i], n)) # EMPTY

\* the cost, the priority and the grid of a state agree with its filled slots
StateInOrder(st) ==
    /\ st.cost = Cardinality(st.filled_slots)
    /\ st.priority = st.cost + st.heuristic
    /\ st.grid_hash \in DOMAIN grid_cache
    /\ \A key \in st.filled_slots : FilledIn(grid_cache[st.grid_hash], key)

\* the child has the slots of the parent and one more
OneSlotMore(parent, child) ==
    \E i \in DOMAIN slots :
        /\ SlotKey(slots[i]) \notin parent.filled_slots
        /\ child.filled_slots = parent.filled_slots \cup {SlotKey(slots[i])}

\* the step pops the entry i and pushes children of it
PushesFrom(i) ==
    /\ Len(open_set') >= Len(open_set)
    /\ SubSeq(open_set', 1, Len(open_set) - 1) = Without(open_set, i)

\* every state a step of the loop pushes is one slot beyond the state popped
PushedOneSlotMore ==
    (pc = "astar" /\ pc' = "astar" /\ Len(open_set') >= Len(open_set)) =>
        \E i \in Poppable :
            /\ PushesFrom(i)
            /\ \A k \in Len(open_set)..Len(open_set') :
                  OneSlotMore(open_set[i], open_set'[k])

\* C34: of every state pushed onto the A* open set the cost is the number of
\* its filled slots, the priority is cost + heuristic, every filled slot has
\* no EMPTY cell in the grid kept under the state's grid hash, and the filled
\* slots of a successor are those of its parent and one slot more.
C34_OpenSetStatesInOrder ==
    /\ [](pc = "astar" => \A k \in DOMAIN open_set : StateInOrder(open_set[k]))
    /\ [][PushedOneSlotMore]_vars

\* the open set holds a state of two filled slots that cross
C34_Witness ==
    /\ pc = "astar"
    /\ \E k \in DOMAIN open_set : \E i, j \in DOMAIN slots :
          /\ slots[i].direction # slots[j].direction
          /\ {SlotKey(slots[i]), SlotKey(slots[j])} \subseteq open_set[k].filled_slots
          /\ open_set[k].cost = 2

-----------------------------------------------------------------------------
(* The grid when a call of the search returns False                        *)

\* the call at the top of the stack has tried its last candidate: it returns
\* False
ReturnsFalse ==
    /\ pc = "search"
    /\ stack # <<>>
    /\ Top.slot_index < Len(slot_candidates)
    /\ Top.i > Len(TopEntry.candidates)

\* the search was made and failed as a whole
SearchFailed ==
    /\ algo \in {"dfs", "hybrid"}
    /\ hist.queried
    /\ \/ pc = "failed"
       \/ pc = "done" /\ slot_candidates # <<>> /\ result.status = "partial"

\* C36: when a call of the DFS or Hybrid search returns False the grid is,
\* cell for cell, the grid the call was entered with; when the whole search
\* is exhausted the grid is the normalized input grid.
C36_FailedCallRestoresGrid ==
    /\ ReturnsFalse => solution = hist.entries[Len(stack)]
    /\ SearchFailed => solution = NormalizeGrid(puzzle.grid)
    /\ (SearchFailed /\ pc = "done") => result.grid = NormalizeGrid(puzzle.grid)

\* a call below the outermost returns False after it placed a word over a
\* cell that held a letter and a cell that held none, and removed it
C36_Witness ==
    /\ ReturnsFalse
    /\ Len(stack) >= 2
    /\ Len(TopEntry.candidates) >= 1
    /\ hist.backtracked
    /\ \E n, m \in 0..(TopEntry.slot.length - 1) :
          /\ Cell(solution, SlotX(TopEntry.slot, n), SlotY(TopEntry.slot, n)) = EMPTY
          /\ Cell(solution, SlotX(TopEntry.slot, m), SlotY(TopEntry.slot, m)) \notin {EMPTY, "#"}

-----------------------------------------------------------------------------
(* The solvers that write whole words                                      *)

\* the input grid as the constructor takes it over
Given == NormalizeGrid(puzzle.grid)

\* every cell the input grid holds something in holds the same in the grid
KeepsGiven(grid) ==
    \A y \in DOMAIN Given : \A x \in DOMAIN Given[y] :
        Given[y][x] # EMPTY => grid[y][x] = Given[y][x]

\* the cells that differ were EMPTY before
OnlyOverEmpty(before, after) ==
    \A y \in DOMAIN before : \A x \in DOMAIN before[y] :
        after[y][x] # before[y][x] => before[y][x] = EMPTY

\* the grids of the searches and of their results
GridsKeepGiven ==
    /\ (algo = "astar" /\ pc \in {"astar", "done"}) =>
          /\ \A h \in DOMAIN grid_cache : KeepsGiven(grid_cache[h])
          /\ KeepsGiven(solution)
          /\ pc = "done" => KeepsGiven(result.grid)
    /\ algo = "greedy" =>
          /\ KeepsGiven(solution)
          /\ pc = "done" => KeepsGiven(result.grid)

\* the grid of every successor differs from the grid of the state expanded
\* only in cells that were EMPTY there; so does the greedy solver's grid
\* after a pass of its loop from the grid before
WritesOverEmpty ==
    /\ (algo = "astar" /\ pc = "astar" /\ hist'.expanded # hist.expanded) =>
          \A h \in DOMAIN grid_cache' \ DOMAIN grid_cache :
              OnlyOverEmpty(grid_cache[hist'.expanded[Len(hist'.expanded)]], grid_cache'[h])
    /\ (algo = "greedy" /\ pc = "placing") => OnlyOverEmpty(solution, solution')

\* C37: in the A* child snapshots and in the greedy solver every cell that
\* holds a letter in the input grid holds the same letter in every search
\* state and in the returned grid; a word is written over a cell only when
\* the cell is EMPTY or holds the letter already.
C37_GivenLettersKept == [](GridsKeepGiven) /\ [][WritesOverEmpty]_vars

\* the letters of the input grid that the grid's rows hold
GivenLetters == { c \in AllCells(Given) : Cell(Given, c[1], c[2]) \notin {EMPTY, "#"} }

\* a greedy solve returned a grid with a word over a given letter, and it
\* refused a word on the way
C37_Witness ==
    /\ algo = "greedy"
    /\ pc = "done"
    /\ GivenLetters # {}
    /\ "total_words" \in DOMAIN result
    /\ result.words_placed >= 1
    /\ result.words_placed < result.total_words
    /\ \E k \in DOMAIN slot_candidates :
          /\ Segment(solution, slot_candidates[k].slot) \notin
                {Segment(Given, slot_candidates[k].slot)}
          /\ \E i \in 0..(slot_candidates[k].slot.length - 1) :
                <<SlotX(slot_candidates[k].slot, i), SlotY(slot_candidates[k].slot, i)>>
                    \in GivenLetters

\* an A* state of two filled slots is cached for a grid with given letters
C37_WitnessAstar ==
    /\ algo = "astar"
    /\ pc = "astar"
    /\ GivenLetters # {}
    /\ \E k \in DOMAIN open_set : open_set[k].cost >= 2
====
